---- MODULE Spec2Model ----
(***************************************************************************)
(* Resilience decorators of hamidoujand/networking:                        *)
(*   Retry    src/stablity-patterns/retry/retry.go                         *)
(*   Throttle src/stablity-patterns/throttle/throttle.go  (13-55, 89-134)  *)
(*   Timeout  src/stablity-patterns/throttle/throttle.go  (148-173)        *)
(*   Breaker  src/stablity-patterns/throttle/throttle.go  (270-311)        *)
(*   DebounceVersion1, DebounceVersion2  src/unnamed/part_001              *)
(* and, beside them,                                                       *)
(*   restrictPrefix      src/http/main.go                                  *)
(*   datagramEchoServer  src/unix-socket/unixgram/main.go                  *)
(*   funnel              src/concurrency-patterns/fan-in/main.go           *)
(*   split               src/concurrency-patterns/fan-out/main.go          *)
(* Each program has its own specification (SpecRetry, SpecThrottle,        *)
(* SpecBreaker, SpecTimeout, SpecDebounce1, SpecDebounce2, SpecWindow,     *)
(* SpecHttp, SpecEcho, SpecFunnel, SpecSplit); the variables of the        *)
(* others stay at their initial values.                                    *)
(*                                                                         *)
(* Go's select is modelled as the runtime executes it: when a select is    *)
(* first evaluated it polls its cases and, if several are ready, takes one *)
(* of them at random; if none is ready the goroutine parks, and the first  *)
(* channel event that arrives afterwards decides the case (the waker       *)
(* commits the select, later events cannot change it).                     *)
(***************************************************************************)
EXTENDS Integers, Sequences, FiniteSets, TLC

\* ================================================================ state
VARIABLES
    retries,      \* the retries parameter captured by the closure
    rPc,          \* per invocation: idle, call, incall, select, parked, done
    rR,           \* per invocation: the loop counter r
    rResp,        \* per invocation: response of the last attempt
    rErr,         \* per invocation: err of the last attempt
    rTimer,       \* per invocation: the time.After timer: off, armed, fired
    rCtxDone,     \* per invocation: ctx.Done() is closed
    rRet,         \* per invocation: the pair the wrapper returned
    rCalls,       \* per invocation: attempts of the effector started
    rInCall,      \* per invocation: attempts of the effector in flight
    rWaitCancel,  \* history: ctx ended while the invocation was parked in select
    rCallsAtCancel, \* history: rCalls when that happened
    rOkAt,        \* history, per invocation: ordinal of its first attempt that
                  \* returned a nil error, 0 if none
    rRound        \* per caller: invocations of the wrapper it has made

retryVars == <<retries, rPc, rR, rResp, rErr, rTimer, rCtxDone, rRet, rCalls,
               rInCall, rWaitCancel, rCallsAtCancel, rOkAt, rRound>>

VARIABLES
    tChecksCtx,   \* TRUE: package throttle (89-134), FALSE: package main (13-55)
    tCallers,     \* the goroutines that invoke the throttled function
    tBudget,      \* the invocations they make in one run
    tMax,         \* the max parameter
    tRefill,      \* the refill parameter
    tokens,       \* the captured variable tokens
    tOnceDone,    \* sync.Once has run its function
    tCtxDone,     \* per context: Done() is closed
    tPc,          \* per caller: idle, check, decRead, decWrite, call
    tReg,         \* per caller: the value of tokens loaded by tokens--, until stored
    tRefillPc,    \* refill goroutine: none, select, parked, wakeTick, wakeCtx, write, exited
    tRefillCtx,   \* the ctx captured by the refill goroutine (0: none yet)
    tRefillT,     \* the refill goroutine's local t
    tTickPending, \* ticker.C holds a tick
    tTicks,       \* history: ticks delivered by the ticker
    tStarted,     \* history: invocations started
    tRet,         \* per caller: the outcome of its last completed invocation
    tRateLimited, \* history: invocations that returned the rate-limit error
    tEffCalls,    \* history: invocations of the effector
    tRefills,     \* history: refill goroutines started
    tIntervalTokens,    \* history: tokens at the start of the current refill interval
    tIntervalAdmitted   \* history: invocations admitted (past line 128) in that interval

throttleVars == <<tChecksCtx, tCallers, tBudget, tMax, tRefill, tokens,
                  tOnceDone, tCtxDone, tPc, tReg, tRefillPc, tRefillCtx,
                  tRefillT, tTickPending, tTicks, tStarted, tRet, tRateLimited, tEffCalls, tRefills, tIntervalTokens,
                  tIntervalAdmitted>>

VARIABLES
    toPc,         \* per invocation: idle, select, parked, wakeRes, wakeErr, wakeCtx, done
    toTask,       \* per invocation: the goroutine: none, running, send, finished
    toSlow,       \* per invocation: the pair slow(data) returned to the goroutine
    toResCh,      \* per invocation: buffer of resCh
    toErrCh,      \* per invocation: buffer of errCh
    toGot,        \* per invocation: the value a committed receive handed to the select
    toCtxDone,    \* per invocation: ctx.Done() is closed
    toRet,        \* per invocation: the pair the wrapper returned
    toReported,   \* history: the goroutine had sent when the wrapper chose its case
    toCtxAtChoice \* history: ctx had ended when the wrapper chose its case

timeoutVars == <<toPc, toTask, toSlow, toResCh, toErrCh, toGot, toCtxDone, toRet,
                 toReported, toCtxAtChoice>>

VARIABLES
    failureThreshold,     \* the failureThreshold parameter
    consecutiveFailures,  \* the captured variable consecutiveFailures
    lastAttempt,          \* the captured variable lastAttempt, in seconds
    now,                  \* the wall clock time.Now() reads, in seconds
    bPc,          \* per caller: idle, call, update
    bErr,         \* per caller: the circuit returned an error
    bRet,         \* per caller: the outcome of its last completed invocation
    bStarted,     \* history: invocations started
    bExecuted,    \* history: invocations of the circuit
    bSucceeded,   \* history: invocations of the circuit that returned no error
    bOverlap,     \* history: two invocations were in flight at the same time
    bLastDone,    \* history: the time the last executed invocation completed
    bLastKind,    \* history: outcome of the last executed invocation
    bOrd,         \* history, per caller: ordinal of its current invocation
    bCheckedAt,   \* history, per caller: the time of its open/closed check
    bSawKind,     \* history, per caller: bLastKind at its open/closed check
    bSawDone,     \* history, per caller: bLastDone at its open/closed check
    bTrial,       \* history, per caller: it was admitted while the breaker was open
    bCalls,       \* history, per caller: circuit invocations of its current invocation
    bFailsSince   \* history: failed invocations completed since the latest successful one

breakerVars == <<failureThreshold, consecutiveFailures, lastAttempt, now, bPc,
                 bErr, bRet, bStarted, bExecuted, bSucceeded, bOverlap,
                 bLastDone, bLastKind, bOrd, bCheckedAt, bSawKind, bSawDone,
                 bTrial, bCalls, bFailsSince>>

VARIABLES
    v1D,          \* the cooldown parameter d captured by the closure
    v1Threshold,  \* the captured threshold
    v1Cache,      \* the captured pair <<result, err>>
    v1M,          \* the mutex m: 0 when free, else the caller that holds it
    v1Now,        \* the clock, in units of time
    v1Pc,         \* per caller: idle, calling
    v1Budget,     \* invocations that may still start
    v1Execs,      \* executions of circuit so far
    v1LastDone,   \* history: when the latest invocation returned, -1 if none
    v1LastRet,    \* history: the pair the latest invocation returned
    v1CheckedAt,  \* history, per caller: when its latest invocation read the clock
    v1PrevDone,   \* history, per caller: v1LastDone when it took the mutex
    v1PrevRet,    \* history, per caller: v1LastRet when it took the mutex
    v1Ran,        \* history, per caller: its latest invocation executed circuit
    v1Ret,        \* history, per caller: the pair its latest invocation returned
    v1Returned,   \* history, per caller: its latest invocation has returned
    v1LastExec    \* history: the pair the latest completed execution of circuit returned

debounce1Vars == <<v1D, v1Threshold, v1Cache, v1M, v1Now, v1Pc, v1Budget,
                   v1Execs, v1LastDone, v1LastRet, v1CheckedAt, v1PrevDone,
                   v1PrevRet, v1Ran, v1Ret, v1Returned, v1LastExec>>

VARIABLES
    v2D,          \* the cooldown parameter d captured by the closure
    v2Threshold,  \* the captured threshold
    v2Cache,      \* the captured pair <<result, err>>
    v2M,          \* the mutex m: 0 when free, else the caller whose goroutine holds it
    v2Once,       \* the captured once: fresh, running, done
    v2Ticker,     \* the captured ticker: none, on, stopped
    v2TickBuf,    \* a tick waits in ticker.C (capacity 1)
    v2Stopper,    \* the goroutine of part_001:84-91: none, lock85, done
    v2Now,        \* the clock, in units of time
    v2Pc,         \* per caller: idle, lock75, select, parked, lock96, lock104,
                  \* onceWait, fatal
    v2CtxDone,    \* per caller: ctx.Done() of its context is closed
    v2Budget,     \* invocations that may still start
    v2Execs,      \* executions of circuit so far
    v2Ret,        \* history, per caller: the pair its latest invocation returned
    v2Returned    \* history, per caller: its latest invocation has returned

debounce2Vars == <<v2D, v2Threshold, v2Cache, v2M, v2Once, v2Ticker, v2TickBuf,
                   v2Stopper, v2Now, v2Pc, v2CtxDone, v2Budget, v2Execs, v2Ret,
                   v2Returned>>

VARIABLES
    hPath,        \* r.URL.Path of the request, a sequence of characters
    hPrefix,      \* the prefix argument of restrictPrefix
    hPc,          \* request (not served yet), done
    hStatus,      \* the status code of the response, 0 before there is one
    hNextCalls    \* calls of next.ServeHTTP

httpVars == <<hPath, hPrefix, hPc, hStatus, hNextCalls>>

VARIABLES
    wFailures,    \* consecutiveFailures when the open/closed check reads it
    wThreshold,   \* the failureThreshold argument
    wSince,       \* time.Now() is 2^wSince seconds after lastAttempt ...
    wExtra,       \* ... plus wExtra nanoseconds
    wPc,          \* check (lines 283-288 not run yet), done
    wBackoff,     \* time.Second * 2 << d as computed, bit i of the int64 at [i]
    wRejected     \* the check returned "service unreachable"

windowVars == <<wFailures, wThreshold, wSince, wExtra, wPc, wBackoff, wRejected>>

VARIABLES
    eNetwork,     \* the network argument of datagramEchoServer
    eCtxDone,     \* ctx.Done() is closed
    ePc,          \* new, failed, read (in s.ReadFrom), write, deferWait, exited
    eSockOpen,    \* the socket s is open
    eFile,        \* the socket file addr exists
    eInbox,       \* datagrams that wait in the socket's receive queue
    eSent,        \* datagrams clients have sent so far
    eEchoed       \* datagrams echoed back

echoVars == <<eNetwork, eCtxDone, ePc, eSockOpen, eFile, eInbox, eSent, eEchoed>>

VARIABLES
    fnSent,       \* per source: values its producer has sent on it so far
    fnSrcClosed,  \* per source: the source channel is closed
    fnPc,         \* per source, the goroutine of fan-in/main.go:16: recv, send, done
    fnHeld,       \* per source: the value n that goroutine is sending on dest
    fnWg,         \* the WaitGroup counter
    fnCloser,     \* the goroutine of fan-in/main.go:25: wait, done
    fnCloses,     \* close(dest) calls so far
    fnPanic,      \* a goroutine sent on the closed dest
    fnDest,       \* the pairs <<source, value>> received from dest, in order
    fnConsumer    \* the reader of dest: range, done

funnelVars == <<fnSent, fnSrcClosed, fnPc, fnHeld, fnWg, fnCloser, fnCloses,
                fnPanic, fnDest, fnConsumer>>

VARIABLES
    spSent,       \* values the producer has sent on source so far (1..spSent)
    spSrcClosed,  \* source is closed
    spPc,         \* per destination, the goroutine of fan-out/main.go:16: recv, send, done
    spHeld,       \* per destination: the value val that goroutine is sending
    spCloses,     \* per destination: close(ch) calls so far
    spGot,        \* per destination: the values its consumer has received, in order
    spConsumer,   \* per destination, the goroutine of fan-out/main.go:45: range, done
    spWg,         \* the WaitGroup counter of main
    spMain        \* main: wait (in wg.Wait), done

splitVars == <<spSent, spSrcClosed, spPc, spHeld, spCloses, spGot, spConsumer,
               spWg, spMain>>

VARIABLE
    decorator     \* the decorator under study in this behaviour; never changes

vars == <<retryVars, throttleVars, timeoutVars, breakerVars, debounce1Vars,
         debounce2Vars, decorator,
         httpVars,
         windowVars,
         echoVars,
         funnelVars,
         splitVars>>

\* what an action of one decorator leaves alone
notRetry == <<throttleVars, timeoutVars, breakerVars, debounce1Vars,
    debounce2Vars, decorator,
    httpVars,
    windowVars,
    echoVars,
    funnelVars,
    splitVars>>
notThrottle == <<retryVars, timeoutVars, breakerVars, debounce1Vars,
    debounce2Vars, decorator,
    httpVars,
    windowVars,
    echoVars,
    funnelVars,
    splitVars>>
notTimeout == <<retryVars, throttleVars, breakerVars, debounce1Vars,
    debounce2Vars, decorator,
    httpVars,
    windowVars,
    echoVars,
    funnelVars,
    splitVars>>
notBreaker == <<retryVars, throttleVars, timeoutVars, debounce1Vars,
    debounce2Vars, decorator,
    httpVars,
    windowVars,
    echoVars,
    funnelVars,
    splitVars>>
notDebounce1 == <<retryVars, throttleVars, timeoutVars, breakerVars, debounce2Vars,
    decorator,
    httpVars,
    windowVars,
    echoVars,
    funnelVars,
    splitVars>>
notDebounce2 == <<retryVars, throttleVars, timeoutVars, breakerVars, debounce1Vars,
    decorator,
    httpVars,
    windowVars,
    echoVars,
    funnelVars,
    splitVars>>
notHttp == <<retryVars, throttleVars, timeoutVars, breakerVars,
    debounce1Vars, debounce2Vars, decorator,
    windowVars,
    echoVars,
    funnelVars,
    splitVars>>
notWindow == <<retryVars, throttleVars, timeoutVars, breakerVars,
    debounce1Vars, debounce2Vars, decorator, httpVars,
    echoVars,
    funnelVars,
    splitVars>>
notEcho == <<retryVars, throttleVars, timeoutVars, breakerVars,
    debounce1Vars, debounce2Vars, decorator, httpVars,
    windowVars,
    funnelVars,
    splitVars>>
notFunnel == <<retryVars, throttleVars, timeoutVars, breakerVars,
    debounce1Vars, debounce2Vars, decorator, httpVars,
    windowVars, echoVars,
    splitVars>>
notSplit == <<retryVars, throttleVars, timeoutVars, breakerVars,
    debounce1Vars, debounce2Vars, decorator, httpVars,
    windowVars, echoVars, funnelVars>>

\* ---------------------------------------------------------------- errors
\* error values: a tag and the ordinal of the underlying call that made it
NoErr == <<"nil", 0>>
CtxErr == <<"ctx", 0>>
EffErr(k) == <<"eff", k>>

\* ================================================================ Retry
\* bound: largest value of the retries parameter
MaxRetries == 2
\* the retries values of Retry(effector, retries, delay); -1 stands for
\* every negative value (r >= retries holds at once for all of them)
RetriesValues == (0 - 1)..MaxRetries
\* bound: invocations of the wrapper made one after another by one caller
MaxRetryRounds == 2
\* callers invoking one retrying wrapper concurrently
RetryInvs == {1, 2}
\* responses an effector may hand back together with an error
FailResponses == {"", "partial"}


RetryInit ==
    /\ retries \in RetriesValues
    /\ rPc = [i \in RetryInvs |-> "idle"]
    /\ rR = [i \in RetryInvs |-> 0]
    /\ rResp = [i \in RetryInvs |-> ""]
    /\ rErr = [i \in RetryInvs |-> NoErr]
    /\ rTimer = [i \in RetryInvs |-> "off"]
    /\ rCtxDone \in [RetryInvs -> BOOLEAN]
    /\ rRet = [i \in RetryInvs |-> <<"", NoErr>>]
    /\ rCalls = [i \in RetryInvs |-> 0]
    /\ rInCall = [i \in RetryInvs |-> 0]
    /\ rWaitCancel = [i \in RetryInvs |-> FALSE]
    /\ rCallsAtCancel = [i \in RetryInvs |-> 0]
    /\ rOkAt = [i \in RetryInvs |-> 0]
    /\ rRound = [i \in RetryInvs |-> 0]

\* the other decorators idle while Retry runs
RetryIdle ==
    /\ retries = 0
    /\ rPc = [i \in RetryInvs |-> "idle"]
    /\ rR = [i \in RetryInvs |-> 0]
    /\ rResp = [i \in RetryInvs |-> ""]
    /\ rErr = [i \in RetryInvs |-> NoErr]
    /\ rTimer = [i \in RetryInvs |-> "off"]
    /\ rCtxDone = [i \in RetryInvs |-> FALSE]
    /\ rRet = [i \in RetryInvs |-> <<"", NoErr>>]
    /\ rCalls = [i \in RetryInvs |-> 0]
    /\ rInCall = [i \in RetryInvs |-> 0]
    /\ rWaitCancel = [i \in RetryInvs |-> FALSE]
    /\ rCallsAtCancel = [i \in RetryInvs |-> 0]
    /\ rOkAt = [i \in RetryInvs |-> 0]
    /\ rRound = [i \in RetryInvs |-> 0]

\* mutant of RetryReturnsAfterAttempt: a successful attempt does not end the loop
RetryReturnsWhenExhausted(err, r, n) == r >= n

\* mutant of RetryReturnsAfterAttempt: the bound compared with > (one attempt
\* too many)
RetryReturnsAfterAttemptOffByOne(err, r, n) == err = NoErr \/ r > n

\* retry.go:16  if err == nil || r >= retries { return response, err }
RetryReturnsAfterAttempt(err, r, n) == err = NoErr \/ r >= n

\* mutant of RetrySelectReady: the delay case is ready as soon as the timer
\* is set, the select does not wait for it
RetrySelectReadyNoWait(timer, ctxDone) ==
    (IF timer # "off" THEN {"delay"} ELSE {}) \cup
    (IF ctxDone THEN {"ctx"} ELSE {})

\* retry.go:20-24: the cases of the select that are ready
RetrySelectReady(timer, ctxDone) ==
    (IF timer = "fired" THEN {"delay"} ELSE {}) \cup
    (IF ctxDone THEN {"ctx"} ELSE {})

\* retry.go:21 and the loop's r++: the delay elapsed, next attempt
RetryTakeDelay(i) ==
    /\ rR' = [rR EXCEPT ![i] = @ + 1]
    /\ rPc' = [rPc EXCEPT ![i] = "call"]
    /\ rTimer' = [rTimer EXCEPT ![i] = "off"]
    /\ UNCHANGED rRet

\* mutant of RetryTakeCtx: the cancelled wait hands back the last attempt's
\* pair instead of ctx.Err()
RetryTakeCtxLastErr(i) ==
    /\ rRet' = [rRet EXCEPT ![i] = <<rResp[i], rErr[i]>>]
    /\ rPc' = [rPc EXCEPT ![i] = "done"]
    /\ UNCHANGED <<rR, rTimer>>

\* retry.go:22-23  case <-ctx.Done(): return "", ctx.Err()
RetryTakeCtx(i) ==
    /\ rRet' = [rRet EXCEPT ![i] = <<"", CtxErr>>]
    /\ rPc' = [rPc EXCEPT ![i] = "done"]
    /\ UNCHANGED <<rR, rTimer>>

\* mutant of RetryCounterStart: the counter is kept from the invocation
\* before, as if r were declared outside the returned function
RetryCounterKept(r) == r

\* retry.go:14: for r := 0, a variable of the invocation itself
RetryCounterStart(r) == 0

\* retry.go:13-14: the wrapper is invoked, for the first time or again after
\* an earlier invocation returned; ctx is the argument of this invocation
RetryInvoke(i) ==
    /\ rPc[i] \in {"idle", "done"}
    /\ rRound[i] < MaxRetryRounds
    /\ rRound' = [rRound EXCEPT ![i] = @ + 1]
    /\ rPc' = [rPc EXCEPT ![i] = "call"]
    /\ rR' = [rR EXCEPT ![i] = RetryCounterStart(@)]
    /\ \E ended \in (IF rPc[i] = "idle" THEN {rCtxDone[i]}
                                       ELSE {rCtxDone[i], FALSE}) :
          rCtxDone' = [rCtxDone EXCEPT ![i] = ended]
    /\ rResp' = [rResp EXCEPT ![i] = ""]
    /\ rErr' = [rErr EXCEPT ![i] = NoErr]
    /\ rTimer' = [rTimer EXCEPT ![i] = "off"]
    /\ rRet' = [rRet EXCEPT ![i] = <<"", NoErr>>]
    /\ rCalls' = [rCalls EXCEPT ![i] = 0]
    /\ rWaitCancel' = [rWaitCancel EXCEPT ![i] = FALSE]
    /\ rCallsAtCancel' = [rCallsAtCancel EXCEPT ![i] = 0]
    /\ rOkAt' = [rOkAt EXCEPT ![i] = 0]
    /\ UNCHANGED <<retries, rInCall>>
    /\ UNCHANGED notRetry

\* retry.go:15: effector(ctx) is entered
RetryCallStart(i) ==
    /\ rPc[i] = "call"
    /\ rPc' = [rPc EXCEPT ![i] = "incall"]
    /\ rCalls' = [rCalls EXCEPT ![i] = @ + 1]
    /\ rInCall' = [rInCall EXCEPT ![i] = @ + 1]
    /\ UNCHANGED <<retries, rR, rResp, rErr, rTimer, rCtxDone, rRet,
                   rWaitCancel, rCallsAtCancel, rOkAt, rRound>>
    /\ UNCHANGED notRetry

\* mutant of RetryReturnedPair: an ended context replaces the attempt's pair
RetryReturnedPairCtxFirst(response, err, ctxDone) ==
    IF ctxDone THEN <<"", CtxErr>> ELSE <<response, err>>

\* retry.go:17: return response, err, whatever the state of ctx
RetryReturnedPair(response, err, ctxDone) == <<response, err>>

\* retry.go:15-19: effector(ctx) returns (response, err); either the wrapper
\* returns the pair or it evaluates time.After(delay) and enters the select
RetryCallReturn(i) ==
    /\ rPc[i] = "incall"
    /\ \E ok \in BOOLEAN, fr \in FailResponses :
          LET response == IF ok THEN "ok" ELSE fr
              err == IF ok THEN NoErr ELSE EffErr(rCalls[i])
          IN /\ rResp' = [rResp EXCEPT ![i] = response]
             /\ rErr' = [rErr EXCEPT ![i] = err]
             /\ IF RetryReturnsAfterAttempt(err, rR[i], retries)
                THEN /\ rRet' = [rRet EXCEPT ![i] =
                                     RetryReturnedPair(response, err, rCtxDone[i])]
                     /\ rPc' = [rPc EXCEPT ![i] = "done"]
                     /\ UNCHANGED rTimer
                ELSE /\ rPc' = [rPc EXCEPT ![i] = "select"]
                     /\ rTimer' = [rTimer EXCEPT ![i] = "armed"]
                     /\ UNCHANGED rRet
    /\ rInCall' = [rInCall EXCEPT ![i] = @ - 1]
    /\ rOkAt' = [rOkAt EXCEPT ![i] =
                    IF @ = 0 /\ rErr'[i] = NoErr THEN rCalls[i] ELSE @]
    /\ UNCHANGED <<retries, rR, rCtxDone, rCalls, rWaitCancel, rCallsAtCancel,
                   rRound>>
    /\ UNCHANGED notRetry

\* retry.go:20-24: the select polls its cases; it parks when none is ready
RetrySelectPoll(i) ==
    /\ rPc[i] = "select"
    /\ LET ready == RetrySelectReady(rTimer[i], rCtxDone[i])
       IN IF ready = {}
          THEN /\ rPc' = [rPc EXCEPT ![i] = "parked"]
               /\ UNCHANGED <<rR, rTimer, rRet>>
          ELSE \E c \in ready :
                  IF c = "delay" THEN RetryTakeDelay(i) ELSE RetryTakeCtx(i)
    /\ UNCHANGED <<retries, rResp, rErr, rCtxDone, rCalls, rInCall,
                   rWaitCancel, rCallsAtCancel, rOkAt, rRound>>
    /\ UNCHANGED notRetry

\* retry.go:20-24: a parked select was woken on one case and now runs it
RetryWake(i) ==
    /\ \/ rPc[i] = "wakeDelay" /\ RetryTakeDelay(i)
       \/ rPc[i] = "wakeCtx" /\ RetryTakeCtx(i)
    /\ UNCHANGED <<retries, rResp, rErr, rCtxDone, rCalls, rInCall,
                   rWaitCancel, rCallsAtCancel, rOkAt, rRound>>
    /\ UNCHANGED notRetry

\* retry.go:21: the timer of time.After(delay) fires; a select parked on it
\* is committed to the delay case
RetryTimerFire(i) ==
    /\ rTimer[i] = "armed"
    /\ rTimer' = [rTimer EXCEPT ![i] = "fired"]
    /\ rPc' = [rPc EXCEPT ![i] = IF @ = "parked" THEN "wakeDelay" ELSE @]
    /\ UNCHANGED <<retries, rR, rResp, rErr, rCtxDone, rRet, rCalls, rInCall,
                   rWaitCancel, rCallsAtCancel, rOkAt, rRound>>
    /\ UNCHANGED notRetry

\* retry.go:22: the invocation's context ends (cancel or deadline); a select
\* parked on ctx.Done() is committed to that case
RetryCtxCancel(i) ==
    /\ ~rCtxDone[i]
    /\ rCtxDone' = [rCtxDone EXCEPT ![i] = TRUE]
    /\ IF rPc[i] = "parked"
       THEN /\ rPc' = [rPc EXCEPT ![i] = "wakeCtx"]
            /\ rWaitCancel' = [rWaitCancel EXCEPT ![i] = TRUE]
            /\ rCallsAtCancel' = [rCallsAtCancel EXCEPT ![i] = rCalls[i]]
       ELSE UNCHANGED <<rPc, rWaitCancel, rCallsAtCancel>>
    /\ UNCHANGED <<retries, rR, rResp, rErr, rTimer, rRet, rCalls, rInCall, rOkAt, rRound>>
    /\ UNCHANGED notRetry

RetryNext ==
    \E i \in RetryInvs :
        \/ RetryInvoke(i)
        \/ RetryCallStart(i)
        \/ RetryCallReturn(i)
        \/ RetrySelectPoll(i)
        \/ RetryWake(i)
        \/ RetryTimerFire(i)
        \/ RetryCtxCancel(i)

\* ================================================================ Throttle
\* bound: largest max parameter of Throttle(effector, max, refill, d)
MaxTokens == 2
\* bound: invocations of the throttled function in one concurrent run
MaxThrottleCalls == 3
\* throttle.go:62-63: main runs Throttle(exampleEffector, 3, 1, time.Second)
\* five times in sequence
MainMax == 3
MainRefill == 1
MainCalls == 5
\* bound: ticks the ticker delivers in one run
MaxTicks == 1
\* the refill values of Throttle(effector, max, refill, d)
RefillValues == {1, 2}
\* goroutines invoking one throttled function, and the contexts they pass
ThrottleCallers == {1, 2}
ThrottleCtxs == {1, 2}


\* outcomes of an invocation of the throttled function
RateLimited == "too many calls"
CtxOutcome == "ctx.Err()"
EffOutcome == "effector(ctx)"

\* throttle.go:16, 18 / 90, 93: tokens := max, var once sync.Once
ThrottleStart ==
    /\ tokens = tMax
    /\ tOnceDone = FALSE
    /\ tCtxDone = [x \in ThrottleCtxs |-> FALSE]
    /\ tPc = [c \in ThrottleCallers |-> "idle"]
    /\ tReg = [c \in ThrottleCallers |-> 0]
    /\ tRefillPc = "none"
    /\ tRefillCtx = 0
    /\ tRefillT = 0
    /\ tTickPending = FALSE
    /\ tTicks = 0
    /\ tStarted = 0
    /\ tRet = [c \in ThrottleCallers |-> "none"]
    /\ tRateLimited = 0
    /\ tEffCalls = 0
    /\ tRefills = 0
    /\ tIntervalTokens = tMax
    /\ tIntervalAdmitted = 0

\* a throttled function shared by concurrent callers
ThrottleInit ==
    /\ tChecksCtx \in BOOLEAN
    /\ tCallers = ThrottleCallers
    /\ tBudget = MaxThrottleCalls
    /\ tMax \in 1..MaxTokens
    /\ tRefill \in RefillValues
    /\ ThrottleStart

\* throttle.go:61-73: main, one goroutine calling withThrottle in a loop
ThrottleMainInit ==
    /\ tChecksCtx \in BOOLEAN
    /\ tCallers = {1}
    /\ tBudget = MainCalls
    /\ tMax = MainMax
    /\ tRefill = MainRefill
    /\ ThrottleStart

\* the throttled function while another decorator runs
ThrottleIdle ==
    /\ tChecksCtx = FALSE
    /\ tCallers = {}
    /\ tBudget = 0
    /\ tMax = MainMax
    /\ tRefill = MainRefill
    /\ ThrottleStart

\* mutant of ThrottleCtxRejects: no invocation is turned away for its context
ThrottleCtxNeverRejects(checksCtx, ctxDone) == FALSE

\* throttle.go:97: if ctx.Err() != nil (absent from the version of line 13)
ThrottleCtxRejects(checksCtx, ctxDone) == checksCtx /\ ctxDone

\* mutant of ThrottleNoToken: the check lets a caller through at zero tokens
ThrottleNoTokenBelowZero(tok) == tok < 0

\* throttle.go:47 / 128: if tokens <= 0
ThrottleNoToken(tok) == tok <= 0

\* throttle.go:36-40 / 116-120: t := tokens + refill; if t > max { t = max }
ThrottleRefilled(tok, refill, max) ==
    IF tok + refill > max THEN max ELSE tok + refill

\* the invocation of caller c returns outcome o
ThrottleReturn(c, o) ==
    /\ tPc' = [tPc EXCEPT ![c] = "idle"]
    /\ tRet' = [tRet EXCEPT ![c] = o]
    /\ tRateLimited' = IF o = RateLimited THEN tRateLimited + 1 ELSE tRateLimited

\* mutant of ThrottleOnce: every invocation starts a refill goroutine
ThrottleOnceEveryCall(x) ==
    /\ tOnceDone' = TRUE
    /\ tRefillPc' = "select"
    /\ tRefillCtx' = x
    /\ tRefills' = tRefills + 1

\* throttle.go:22-45 / 103-126: once.Do; its first use creates the ticker and
\* starts the refill goroutine, which captures the ctx x of that invocation
ThrottleOnce(x) ==
    IF tOnceDone
    THEN UNCHANGED <<tOnceDone, tRefillPc, tRefillCtx, tRefills>>
    ELSE /\ tOnceDone' = TRUE
         /\ tRefillPc' = "select"
         /\ tRefillCtx' = x
         /\ tRefills' = tRefills + 1

\* throttle.go:20-45 / 95-126: the throttled function is invoked with context
\* x; the version of line 89 returns "", ctx.Err() when x has ended, before
\* it reaches once.Do
ThrottleInvoke(c, x) ==
    /\ c \in tCallers
    /\ tPc[c] = "idle"
    /\ tStarted < tBudget
    /\ tStarted' = tStarted + 1
    /\ IF ThrottleCtxRejects(tChecksCtx, tCtxDone[x])
       THEN /\ ThrottleReturn(c, CtxOutcome)
            /\ UNCHANGED <<tOnceDone, tRefillPc, tRefillCtx, tRefills>>
       ELSE /\ ThrottleOnce(x)
            /\ tPc' = [tPc EXCEPT ![c] = "check"]
            /\ UNCHANGED <<tRet, tRateLimited>>
    /\ UNCHANGED <<tChecksCtx, tCallers, tBudget, tMax, tRefill, tokens,
                   tCtxDone, tReg, tRefillT, tTickPending, tTicks, tEffCalls,
                   tIntervalTokens, tIntervalAdmitted>>
    /\ UNCHANGED notThrottle

\* throttle.go:47-49 / 128-130: the zero check, an unsynchronised read of tokens
ThrottleCheck(c) ==
    /\ tPc[c] = "check"
    /\ IF ThrottleNoToken(tokens)
       THEN /\ ThrottleReturn(c, RateLimited)
            /\ UNCHANGED tIntervalAdmitted
       ELSE /\ tPc' = [tPc EXCEPT ![c] = "decRead"]
            /\ tIntervalAdmitted' = tIntervalAdmitted + 1
            /\ UNCHANGED <<tRet, tRateLimited>>
    /\ UNCHANGED <<tChecksCtx, tCallers, tBudget, tMax, tRefill, tokens, tOnceDone, tCtxDone, tReg, tRefillPc, tRefillCtx, tRefillT, tTickPending, tTicks,
                   tStarted, tEffCalls, tRefills, tIntervalTokens>>
    /\ UNCHANGED notThrottle

\* throttle.go:51 / 131: tokens-- loads tokens (no lock, no atomic)
ThrottleDecRead(c) ==
    /\ tPc[c] = "decRead"
    /\ tReg' = [tReg EXCEPT ![c] = tokens]
    /\ tPc' = [tPc EXCEPT ![c] = "decWrite"]
    /\ UNCHANGED <<tChecksCtx, tCallers, tBudget, tMax, tRefill, tokens, tOnceDone, tCtxDone, tRefillPc, tRefillCtx, tRefillT, tTickPending, tTicks,
                   tStarted, tRet, tRateLimited, tEffCalls, tRefills,
                   tIntervalTokens, tIntervalAdmitted>>
    /\ UNCHANGED notThrottle

\* throttle.go:51 / 131: tokens-- stores the loaded value minus one
ThrottleDecWrite(c) ==
    /\ tPc[c] = "decWrite"
    /\ tokens' = tReg[c] - 1
    /\ tReg' = [tReg EXCEPT ![c] = 0]
    /\ tPc' = [tPc EXCEPT ![c] = "call"]
    /\ UNCHANGED <<tChecksCtx, tCallers, tBudget, tMax, tRefill, tOnceDone, tCtxDone,
                   tRefillPc, tRefillCtx, tRefillT, tTickPending, tTicks,
                   tStarted, tRet, tRateLimited, tEffCalls, tRefills,
                   tIntervalTokens, tIntervalAdmitted>>
    /\ UNCHANGED notThrottle

\* mutant of ThrottleCall: the effector is invoked and the invocation stays
\* where it is, to invoke it again
ThrottleCallAgain(c) ==
    /\ tPc[c] = "call"
    /\ tEffCalls' = tEffCalls + 1
    /\ UNCHANGED <<tChecksCtx, tCallers, tBudget, tMax, tRefill, tokens, tOnceDone,
                   tCtxDone, tPc, tReg, tRefillPc, tRefillCtx, tRefillT,
                   tTickPending, tTicks, tStarted, tRet, tRateLimited, tRefills,
                   tIntervalTokens, tIntervalAdmitted>>
    /\ UNCHANGED notThrottle

\* throttle.go:53 / 132: return effector(ctx)
ThrottleCall(c) ==
    /\ tPc[c] = "call"
    /\ tEffCalls' = tEffCalls + 1
    /\ ThrottleReturn(c, EffOutcome)
    /\ UNCHANGED <<tChecksCtx, tCallers, tBudget, tMax, tRefill, tokens, tOnceDone, tCtxDone, tReg, tRefillPc, tRefillCtx, tRefillT, tTickPending, tTicks,
                   tStarted, tRefills, tIntervalTokens,
                   tIntervalAdmitted>>
    /\ UNCHANGED notThrottle

\* a context passed to the throttled function ends
ThrottleCtxCancel(x) ==
    /\ ~tCtxDone[x]
    /\ tCtxDone' = [tCtxDone EXCEPT ![x] = TRUE]
    /\ tRefillPc' = IF tRefillPc = "parked" /\ tRefillCtx = x
                    THEN "wakeCtx" ELSE tRefillPc
    /\ UNCHANGED <<tChecksCtx, tCallers, tBudget, tMax, tRefill, tokens, tOnceDone, tPc, tReg,
                   tRefillCtx, tRefillT, tTickPending, tTicks, tStarted,
                   tRet, tRateLimited, tEffCalls, tRefills, tIntervalTokens,
                   tIntervalAdmitted>>
    /\ UNCHANGED notThrottle

\* throttle.go:23 / 105: the ticker delivers a tick on ticker.C (capacity 1:
\* a tick that finds the channel full is dropped)
ThrottleTickerFire ==
    /\ tRefillPc \notin {"none", "exited"}
    /\ tTicks < MaxTicks
    /\ tTicks' = tTicks + 1
    /\ IF tRefillPc = "parked"
       THEN tRefillPc' = "wakeTick" /\ UNCHANGED tTickPending
       ELSE tTickPending' = TRUE /\ UNCHANGED tRefillPc
    /\ UNCHANGED <<tChecksCtx, tCallers, tBudget, tMax, tRefill, tokens, tOnceDone, tCtxDone, tPc,
                   tReg, tRefillCtx, tRefillT, tStarted, tRet, tRateLimited,
                   tEffCalls, tRefills, tIntervalTokens,
                   tIntervalAdmitted>>
    /\ UNCHANGED notThrottle

\* throttle.go:36-40 / 116-120: the tick case loads tokens and computes t
ThrottleRefillRead ==
    /\ tRefillT' = ThrottleRefilled(tokens, tRefill, tMax)
    /\ tRefillPc' = "write"

\* throttle.go:32-33 / 112-113: the ctx.Done() case returns, the deferred
\* ticker.Stop() runs
ThrottleRefillExit ==
    /\ tRefillPc' = "exited"
    /\ UNCHANGED tRefillT

\* throttle.go:31-42 / 111-123: the select of the refill goroutine polls its
\* cases (or runs the case a wake-up committed it to)
ThrottleRefillSelect ==
    /\ \/ /\ tRefillPc = "select"
          /\ ~tTickPending /\ ~tCtxDone[tRefillCtx]
          /\ tRefillPc' = "parked"
          /\ UNCHANGED <<tRefillT, tTickPending>>
       \/ /\ tRefillPc = "select"
          /\ tTickPending
          /\ ThrottleRefillRead
          /\ tTickPending' = FALSE
       \/ /\ tRefillPc = "select"
          /\ tCtxDone[tRefillCtx]
          /\ ThrottleRefillExit
          /\ UNCHANGED tTickPending
       \/ /\ tRefillPc = "wakeTick"
          /\ ThrottleRefillRead
          /\ UNCHANGED tTickPending
       \/ /\ tRefillPc = "wakeCtx"
          /\ ThrottleRefillExit
          /\ UNCHANGED tTickPending
    /\ UNCHANGED <<tChecksCtx, tCallers, tBudget, tMax, tRefill, tokens, tOnceDone, tCtxDone, tPc,
                   tReg, tRefillCtx, tTicks, tStarted, tRet, tRateLimited,
                   tEffCalls, tRefills, tIntervalTokens,
                   tIntervalAdmitted>>
    /\ UNCHANGED notThrottle

\* throttle.go:41 / 122: tokens = t (no lock, no atomic)
ThrottleRefillWrite ==
    /\ tRefillPc = "write"
    /\ tokens' = tRefillT
    /\ tRefillT' = 0
    /\ tRefillPc' = "select"
    /\ tIntervalTokens' = tRefillT
    /\ tIntervalAdmitted' = 0
    /\ UNCHANGED <<tChecksCtx, tCallers, tBudget, tMax, tRefill, tOnceDone, tCtxDone, tPc, tReg, tRefillCtx, tTickPending, tTicks, tStarted,
                   tRet, tRateLimited, tEffCalls, tRefills>>
    /\ UNCHANGED notThrottle

ThrottleNext ==
    \/ \E c \in ThrottleCallers :
          \/ \E x \in ThrottleCtxs : ThrottleInvoke(c, x)
          \/ ThrottleCheck(c)
          \/ ThrottleDecRead(c)
          \/ ThrottleDecWrite(c)
          \/ ThrottleCall(c)
    \/ \E x \in ThrottleCtxs : ThrottleCtxCancel(x)
    \/ ThrottleTickerFire
    \/ ThrottleRefillSelect
    \/ ThrottleRefillWrite

\* throttle.go:61-73: main passes context.Background(), which never ends
ThrottleMainNext ==
    \/ \E c \in ThrottleCallers :
          \/ \E x \in ThrottleCtxs : ThrottleInvoke(c, x)
          \/ ThrottleCheck(c)
          \/ ThrottleDecRead(c)
          \/ ThrottleDecWrite(c)
          \/ ThrottleCall(c)
    \/ ThrottleTickerFire
    \/ ThrottleRefillSelect
    \/ ThrottleRefillWrite

\* ================================================================ Timeout
\* mutant of ChanCap: the channels are made unbuffered
ChanCapUnbuffered == 1 - 1

\* throttle.go:150-151: make(chan string, 1), make(chan error, 1)
ChanCap == 1
\* concurrent invocations of one Timeout wrapper
TimeoutInvs == {1, 2}
\* the error a failing slow call returns
SlowErr == <<"eff", 1>>

\* throttle.go:155: what slow(data) may return: a value with a nil error, or
\* any value (empty or not) with a non-nil error
SlowResults ==
    {<<"res", NoErr>>} \cup {<<v, SlowErr>> : v \in FailResponses}

\* throttle.go:157: fmt.Errorf("slow: %w", err)
TimeoutWrap(err) == <<"slow: " \o err[1], err[2]>>

TimeoutStart ==
    /\ toPc = [i \in TimeoutInvs |-> "idle"]
    /\ toTask = [i \in TimeoutInvs |-> "none"]
    /\ toSlow = [i \in TimeoutInvs |-> <<"", NoErr>>]
    /\ toResCh = [i \in TimeoutInvs |-> <<>>]
    /\ toErrCh = [i \in TimeoutInvs |-> <<>>]
    /\ toGot = [i \in TimeoutInvs |-> <<"", NoErr>>]
    /\ toRet = [i \in TimeoutInvs |-> <<"", NoErr>>]
    /\ toReported = [i \in TimeoutInvs |-> FALSE]
    /\ toCtxAtChoice = [i \in TimeoutInvs |-> FALSE]

\* the context of an invocation may have ended before the wrapper is invoked
TimeoutInit ==
    /\ toCtxDone \in [TimeoutInvs -> BOOLEAN]
    /\ TimeoutStart

\* the Timeout wrapper while another decorator runs
TimeoutIdle ==
    /\ toCtxDone = [i \in TimeoutInvs |-> FALSE]
    /\ TimeoutStart

\* throttle.go:164-171: the cases of the select that are ready
TimeoutSelectReady(errCh, resCh, ctxDone) ==
    (IF Len(errCh) > 0 THEN {"err"} ELSE {}) \cup
    (IF Len(resCh) > 0 THEN {"res"} ELSE {}) \cup
    (IF ctxDone THEN {"ctx"} ELSE {})

\* throttle.go:165-166: case err := <-errCh: return "", err
TimeoutTakeErr(i, err) ==
    /\ toRet' = [toRet EXCEPT ![i] = <<"", err>>]
    /\ toPc' = [toPc EXCEPT ![i] = "done"]

\* throttle.go:167-168: case res := <-resCh: return res, nil
TimeoutTakeRes(i, res) ==
    /\ toRet' = [toRet EXCEPT ![i] = <<res, NoErr>>]
    /\ toPc' = [toPc EXCEPT ![i] = "done"]

\* mutant of TimeoutTakeCtx: the ctx case waits for the goroutine to finish
\* before it returns
TimeoutTakeCtxWaits(i) ==
    /\ toTask[i] = "finished"
    /\ toRet' = [toRet EXCEPT ![i] = <<"", CtxErr>>]
    /\ toPc' = [toPc EXCEPT ![i] = "done"]

\* throttle.go:169-170: case <-ctx.Done(): return "", ctx.Err()
TimeoutTakeCtx(i) ==
    /\ toRet' = [toRet EXCEPT ![i] = <<"", CtxErr>>]
    /\ toPc' = [toPc EXCEPT ![i] = "done"]

\* history: what held at the moment the select's case was decided
TimeoutNoteChoice(i) ==
    /\ toReported' = [toReported EXCEPT ![i] = (toTask[i] = "finished")]
    /\ toCtxAtChoice' = [toCtxAtChoice EXCEPT ![i] = toCtxDone[i]]

\* throttle.go:149-161: the wrapper is invoked: it makes the two channels and
\* starts the goroutine that runs slow(data)
TimeoutInvoke(i) ==
    /\ toPc[i] = "idle"
    /\ toPc' = [toPc EXCEPT ![i] = "select"]
    /\ toTask' = [toTask EXCEPT ![i] = "running"]
    /\ toResCh' = [toResCh EXCEPT ![i] = <<>>]
    /\ toErrCh' = [toErrCh EXCEPT ![i] = <<>>]
    /\ UNCHANGED <<toSlow, toGot, toCtxDone, toRet, toReported, toCtxAtChoice>>
    /\ UNCHANGED notTimeout

\* throttle.go:155: slow(data) returns (res, err) to the goroutine
TimeoutSlowReturn(i) ==
    /\ toTask[i] = "running"
    /\ \E r \in SlowResults : toSlow' = [toSlow EXCEPT ![i] = r]
    /\ toTask' = [toTask EXCEPT ![i] = "send"]
    /\ UNCHANGED <<toPc, toResCh, toErrCh, toGot, toCtxDone, toRet, toReported,
                   toCtxAtChoice>>
    /\ UNCHANGED notTimeout

\* throttle.go:156-160: the goroutine's one send, errCh <- fmt.Errorf(...) or
\* resCh <- res. A send hands its value to a select parked on the channel, or
\* else is buffered while the channel has room, or else blocks
TimeoutTaskSend(i) ==
    /\ toTask[i] = "send"
    /\ LET failed == toSlow[i][2] # NoErr
           v == IF failed THEN <<"", TimeoutWrap(toSlow[i][2])>>
                ELSE <<toSlow[i][1], NoErr>>
       IN IF toPc[i] = "parked"
          THEN /\ toPc' = [toPc EXCEPT ![i] = IF failed THEN "wakeErr" ELSE "wakeRes"]
               /\ toGot' = [toGot EXCEPT ![i] = v]
               /\ toReported' = [toReported EXCEPT ![i] = TRUE]
               /\ toCtxAtChoice' = [toCtxAtChoice EXCEPT ![i] = toCtxDone[i]]
               /\ UNCHANGED <<toResCh, toErrCh>>
          ELSE /\ IF failed
                  THEN /\ Len(toErrCh[i]) < ChanCap
                       /\ toErrCh' = [toErrCh EXCEPT ![i] = Append(@, v[2])]
                       /\ UNCHANGED toResCh
                  ELSE /\ Len(toResCh[i]) < ChanCap
                       /\ toResCh' = [toResCh EXCEPT ![i] = Append(@, v[1])]
                       /\ UNCHANGED toErrCh
               /\ UNCHANGED <<toPc, toGot, toReported, toCtxAtChoice>>
    /\ toTask' = [toTask EXCEPT ![i] = "finished"]
    /\ UNCHANGED <<toSlow, toCtxDone, toRet>>
    /\ UNCHANGED notTimeout

\* throttle.go:164-171: the select polls its cases; it parks when none is ready
TimeoutSelectPoll(i) ==
    /\ toPc[i] = "select"
    /\ LET ready == TimeoutSelectReady(toErrCh[i], toResCh[i], toCtxDone[i])
       IN IF ready = {}
          THEN /\ toPc' = [toPc EXCEPT ![i] = "parked"]
               /\ UNCHANGED <<toRet, toResCh, toErrCh, toReported, toCtxAtChoice>>
          ELSE /\ TimeoutNoteChoice(i)
               /\ \E c \in ready :
                     \/ /\ c = "err"
                        /\ TimeoutTakeErr(i, Head(toErrCh[i]))
                        /\ toErrCh' = [toErrCh EXCEPT ![i] = Tail(@)]
                        /\ UNCHANGED toResCh
                     \/ /\ c = "res"
                        /\ TimeoutTakeRes(i, Head(toResCh[i]))
                        /\ toResCh' = [toResCh EXCEPT ![i] = Tail(@)]
                        /\ UNCHANGED toErrCh
                     \/ /\ c = "ctx"
                        /\ TimeoutTakeCtx(i)
                        /\ UNCHANGED <<toResCh, toErrCh>>
    /\ UNCHANGED <<toTask, toSlow, toGot, toCtxDone>>
    /\ UNCHANGED notTimeout

\* throttle.go:164-171: a parked select was woken on one case and now runs it
TimeoutWake(i) ==
    /\ \/ toPc[i] = "wakeErr" /\ TimeoutTakeErr(i, toGot[i][2])
       \/ toPc[i] = "wakeRes" /\ TimeoutTakeRes(i, toGot[i][1])
       \/ toPc[i] = "wakeCtx" /\ TimeoutTakeCtx(i)
    /\ UNCHANGED <<toTask, toSlow, toResCh, toErrCh, toGot, toCtxDone,
                   toReported, toCtxAtChoice>>
    /\ UNCHANGED notTimeout

\* throttle.go:169: the invocation's context ends; a select parked on
\* ctx.Done() is committed to that case
TimeoutCtxCancel(i) ==
    /\ ~toCtxDone[i]
    /\ toCtxDone' = [toCtxDone EXCEPT ![i] = TRUE]
    /\ IF toPc[i] = "parked"
       THEN /\ toPc' = [toPc EXCEPT ![i] = "wakeCtx"]
            /\ toReported' = [toReported EXCEPT ![i] = (toTask[i] = "finished")]
            /\ toCtxAtChoice' = [toCtxAtChoice EXCEPT ![i] = TRUE]
       ELSE UNCHANGED <<toPc, toReported, toCtxAtChoice>>
    /\ UNCHANGED <<toTask, toSlow, toResCh, toErrCh, toGot, toRet>>
    /\ UNCHANGED notTimeout

TimeoutNext ==
    \E i \in TimeoutInvs :
        \/ TimeoutInvoke(i)
        \/ TimeoutSlowReturn(i)
        \/ TimeoutTaskSend(i)
        \/ TimeoutSelectPoll(i)
        \/ TimeoutWake(i)
        \/ TimeoutCtxCancel(i)

\* ================================================================ Breaker
\* bound: largest failureThreshold parameter
MaxThreshold == 3
\* bound: invocations of the breaker-wrapped function in one run
MaxBreakerCalls == 4
\* bound: seconds the clock runs
MaxTime == 3
\* goroutines invoking one breaker-wrapped function
BreakerCallers == {1, 2}

\* 2^n
RECURSIVE Pow2(_)
Pow2(n) == IF n <= 0 THEN 1 ELSE 2 * Pow2(n - 1)

\* throttle.go:286: time.Second * 2 << d, in seconds (the shift stays inside
\* the 64-bit Duration for every d the model reaches)
BreakerBackoff(d) == 2 * Pow2(d)

\* mutant of BreakerRejects: Before instead of !After (the instant
\* shouldRetryAt itself is let through)
BreakerRejectsBefore(cf, threshold, last, t) ==
    LET d == cf - threshold
    IN d >= 0 /\ t < last + BreakerBackoff(d)

\* mutant of BreakerRejects: the backoff starts one failure past the threshold
BreakerRejectsPastThreshold(cf, threshold, last, t) ==
    LET d == cf - threshold
    IN d > 0 /\ ~(t > last + BreakerBackoff(d))

\* throttle.go:284-288: d >= 0 && !time.Now().After(lastAttempt.Add(backoff))
BreakerRejects(cf, threshold, last, t) ==
    LET d == cf - threshold
    IN d >= 0 /\ ~(t > last + BreakerBackoff(d))

\* mutant of BreakerInitialFailures: the counter starts at 1, as the
\* walkthrough of throttle.go:239-244 has it
BreakerInitialFailuresOne == 0 + 1

\* throttle.go:273: consecutiveFailures := 0
BreakerInitialFailures == 0

\* throttle.go:273-277: consecutiveFailures := 0, lastAttempt := time.Now()
BreakerStart ==
    /\ consecutiveFailures = BreakerInitialFailures
    /\ lastAttempt = 0
    /\ now = 0
    /\ bPc = [c \in BreakerCallers |-> "idle"]
    /\ bErr = [c \in BreakerCallers |-> FALSE]
    /\ bRet = [c \in BreakerCallers |-> "none"]
    /\ bStarted = 0
    /\ bExecuted = 0
    /\ bSucceeded = 0
    /\ bOverlap = FALSE
    /\ bLastDone = 0
    /\ bLastKind = "none"
    /\ bOrd = [c \in BreakerCallers |-> 0]
    /\ bCheckedAt = [c \in BreakerCallers |-> 0]
    /\ bSawKind = [c \in BreakerCallers |-> "none"]
    /\ bSawDone = [c \in BreakerCallers |-> 0]
    /\ bTrial = [c \in BreakerCallers |-> FALSE]
    /\ bCalls = [c \in BreakerCallers |-> 0]
    /\ bFailsSince = 0

\* throttle.go:270: Breaker(circuit, failureThreshold), failureThreshold any
\* int: -1 stands for the negative ones
BreakerInit ==
    /\ failureThreshold \in (0 - 1)..MaxThreshold
    /\ BreakerStart

\* the breaker while another decorator runs
BreakerIdle ==
    /\ failureThreshold = 0
    /\ BreakerStart

\* mutant of BreakerReject: a rejected invocation records its attempt time
BreakerRejectTouches(c) ==
    /\ bRet' = [bRet EXCEPT ![c] = "service unreachable"]
    /\ lastAttempt' = now
    /\ UNCHANGED <<bPc, consecutiveFailures, bTrial>>

\* throttle.go:289-291: m.RUnlock(); return "", errors.New("service unreachable")
BreakerReject(c) ==
    /\ bRet' = [bRet EXCEPT ![c] = "service unreachable"]
    /\ UNCHANGED <<bPc, consecutiveFailures, lastAttempt, bTrial>>

\* mutant of BreakerAdmit: the check and the call are one critical section,
\* a trial call is not admitted while another invocation's call is running
BreakerAdmitExclusive(c) ==
    IF \E o \in BreakerCallers \ {c} : bPc[o] = "call"
    THEN BreakerReject(c)
    ELSE /\ bPc' = [bPc EXCEPT ![c] = "call"]
         /\ bTrial' = [bTrial EXCEPT ![c] = consecutiveFailures >= failureThreshold]
         /\ UNCHANGED <<bRet, consecutiveFailures, lastAttempt>>

\* throttle.go:293-295: the request goes ahead
BreakerAdmit(c) ==
    /\ bPc' = [bPc EXCEPT ![c] = "call"]
    /\ bTrial' = [bTrial EXCEPT ![c] = consecutiveFailures >= failureThreshold]
    /\ UNCHANGED <<bRet, consecutiveFailures, lastAttempt>>

\* throttle.go:279-295: the wrapped function is invoked; under the read lock
\* it decides between rejecting and going ahead
BreakerInvoke(c) ==
    /\ bPc[c] = "idle"
    /\ bStarted < MaxBreakerCalls
    /\ bStarted' = bStarted + 1
    /\ bOverlap' = (bOverlap \/ \E o \in BreakerCallers \ {c} : bPc[o] # "idle")
    /\ bOrd' = [bOrd EXCEPT ![c] = bStarted + 1]
    /\ bCheckedAt' = [bCheckedAt EXCEPT ![c] = now]
    /\ bSawKind' = [bSawKind EXCEPT ![c] = bLastKind]
    /\ bSawDone' = [bSawDone EXCEPT ![c] = bLastDone]
    /\ bCalls' = [bCalls EXCEPT ![c] = 0]
    /\ IF BreakerRejects(consecutiveFailures, failureThreshold, lastAttempt, now)
       THEN BreakerReject(c)
       ELSE BreakerAdmit(c)
    /\ UNCHANGED <<failureThreshold, now, bErr, bExecuted, bSucceeded,
                   bLastDone, bLastKind, bFailsSince>>
    /\ UNCHANGED notBreaker

\* throttle.go:297: response, err := circuit(ctx), run with no lock held
BreakerCall(c) ==
    /\ bPc[c] = "call"
    /\ \E failed \in BOOLEAN :
          /\ bErr' = [bErr EXCEPT ![c] = failed]
          /\ bSucceeded' = IF failed THEN bSucceeded ELSE bSucceeded + 1
    /\ bPc' = [bPc EXCEPT ![c] = "update"]
    /\ bExecuted' = bExecuted + 1
    /\ bCalls' = [bCalls EXCEPT ![c] = @ + 1]
    /\ UNCHANGED <<failureThreshold, consecutiveFailures, lastAttempt, now,
                   bRet, bStarted, bOverlap, bLastDone, bLastKind, bOrd,
                   bCheckedAt, bSawKind, bSawDone, bTrial, bFailsSince>>
    /\ UNCHANGED notBreaker

\* mutant of BreakerRecord: the failure counter stops counting at the threshold
BreakerRecordSaturates(failed) ==
    /\ lastAttempt' = now
    /\ consecutiveFailures' =
          IF ~failed THEN 0
          ELSE IF consecutiveFailures >= failureThreshold THEN consecutiveFailures
          ELSE consecutiveFailures + 1

\* mutant of BreakerRecord: a success leaves the failure counter alone
BreakerRecordNoReset(failed) ==
    /\ lastAttempt' = now
    /\ consecutiveFailures' = IF failed THEN consecutiveFailures + 1
                              ELSE consecutiveFailures

\* throttle.go:301-309: lastAttempt = time.Now(); the failure counter is
\* incremented on an error and reset otherwise
BreakerRecord(failed) ==
    /\ lastAttempt' = now
    /\ consecutiveFailures' = IF failed THEN consecutiveFailures + 1 ELSE 0

\* throttle.go:299-310: the post-call update under the write lock, and return
BreakerUpdate(c) ==
    /\ bPc[c] = "update"
    /\ BreakerRecord(bErr[c])
    /\ bRet' = [bRet EXCEPT ![c] = IF bErr[c] THEN "failed" ELSE "ok"]
    /\ bPc' = [bPc EXCEPT ![c] = "idle"]
    /\ bLastDone' = now
    /\ bFailsSince' = IF bErr[c] THEN bFailsSince + 1 ELSE 0
    /\ bLastKind' = IF bErr[c] THEN "failure"
                    ELSE IF bTrial[c] THEN "trial success" ELSE "success"
    /\ UNCHANGED <<failureThreshold, now, bErr, bStarted, bExecuted,
                   bSucceeded, bOverlap, bOrd, bCheckedAt, bSawKind, bSawDone,
                   bTrial, bCalls>>
    /\ UNCHANGED notBreaker

\* a second passes on the clock time.Now() reads
BreakerTick ==
    /\ now < MaxTime
    /\ now' = now + 1
    /\ UNCHANGED <<failureThreshold, consecutiveFailures, lastAttempt, bPc,
                   bErr, bRet, bStarted, bExecuted, bSucceeded, bOverlap,
                   bLastDone, bLastKind, bOrd, bCheckedAt, bSawKind, bSawDone,
                   bTrial, bCalls, bFailsSince>>
    /\ UNCHANGED notBreaker

BreakerNext ==
    \/ \E c \in BreakerCallers :
          \/ BreakerInvoke(c)
          \/ BreakerCall(c)
          \/ BreakerUpdate(c)
    \/ BreakerTick

\* ================================================================ DebounceVersion1
\* bound: largest cooldown d
MaxCooldown == 2
\* bound: invocations of one DebounceVersion1 wrapper
MaxDebounceCalls == 3
\* bound: the clock stops here
MaxDebounceTime == 4

\* part_001:31: var threshold time.Time, the zero time, before every clock reading
ZeroTime == 0 - 1
\* goroutines that invoke one wrapper
DebounceCallers == {1, 2}
\* part_001:54: what circuit(ctx) may return
CircuitResults == {<<"r1", NoErr>>, <<"r2", NoErr>>, <<"", EffErr(1)>>}

Debounce1Start ==
    /\ v1Threshold = ZeroTime
    /\ v1Cache = <<"", NoErr>>
    /\ v1M = 0
    /\ v1Now = 0
    /\ v1Pc = [c \in DebounceCallers |-> "idle"]
    /\ v1Execs = 0
    /\ v1LastDone = ZeroTime
    /\ v1LastRet = <<"", NoErr>>
    /\ v1CheckedAt = [c \in DebounceCallers |-> ZeroTime]
    /\ v1PrevDone = [c \in DebounceCallers |-> ZeroTime]
    /\ v1PrevRet = [c \in DebounceCallers |-> <<"", NoErr>>]
    /\ v1Ran = [c \in DebounceCallers |-> FALSE]
    /\ v1Ret = [c \in DebounceCallers |-> <<"", NoErr>>]
    /\ v1Returned = [c \in DebounceCallers |-> FALSE]
    /\ v1LastExec = <<"", NoErr>>

\* part_001:29-36: DebounceVersion1(circuit, d)
Debounce1Init ==
    /\ v1D \in 0..MaxCooldown
    /\ v1Budget = MaxDebounceCalls
    /\ Debounce1Start

\* the DebounceVersion1 wrapper while another decorator runs
Debounce1Idle ==
    /\ v1D = 0
    /\ v1Budget = 0
    /\ Debounce1Start

\* mutant of Debounce1NextThreshold: the cooldown is not added
Debounce1NextThresholdNoCooldown(t, d) == t

\* part_001:43: threshold = time.Now().Add(d)
Debounce1NextThreshold(t, d) == t + d

\* part_001:48: time.Now().Before(threshold)
Debounce1InCooldown(t, th) == t < th

\* part_001:41-45, 50, 56: return result, err; the deferred function sets the
\* threshold and unlocks m
Debounce1Return(c, pair) ==
    /\ v1Threshold' = Debounce1NextThreshold(v1Now, v1D)
    /\ v1M' = 0
    /\ v1Pc' = [v1Pc EXCEPT ![c] = "idle"]
    /\ v1Ret' = [v1Ret EXCEPT ![c] = pair]
    /\ v1Returned' = [v1Returned EXCEPT ![c] = TRUE]
    /\ v1LastDone' = v1Now
    /\ v1LastRet' = pair

\* mutant of Debounce1MutexFree: m.Lock() does not wait
Debounce1MutexIgnored(m) == TRUE

\* part_001:40: m.Lock() returns once no goroutine holds m
Debounce1MutexFree(m) == m = 0

\* part_001:39-51: the wrapper is invoked: m.Lock() once m is free; within the
\* cooldown it returns the cached pair, otherwise it goes on to circuit(ctx)
DebounceVersion1Invoke(c) ==
    /\ v1Pc[c] = "idle"
    /\ v1Budget > 0
    /\ Debounce1MutexFree(v1M)
    /\ v1Budget' = v1Budget - 1
    /\ v1CheckedAt' = [v1CheckedAt EXCEPT ![c] = v1Now]
    /\ v1PrevDone' = [v1PrevDone EXCEPT ![c] = v1LastDone]
    /\ v1PrevRet' = [v1PrevRet EXCEPT ![c] = v1LastRet]
    /\ IF Debounce1InCooldown(v1Now, v1Threshold)
       THEN /\ Debounce1Return(c, v1Cache)
            /\ v1Ran' = [v1Ran EXCEPT ![c] = FALSE]
       ELSE /\ v1M' = c
            /\ v1Pc' = [v1Pc EXCEPT ![c] = "calling"]
            /\ v1Ran' = [v1Ran EXCEPT ![c] = TRUE]
            /\ v1Returned' = [v1Returned EXCEPT ![c] = FALSE]
            /\ UNCHANGED <<v1Threshold, v1Ret, v1LastDone, v1LastRet>>
    /\ UNCHANGED <<v1D, v1Cache, v1Now, v1Execs, v1LastExec>>
    /\ UNCHANGED notDebounce1

\* mutant of Debounce1Store: the value is stored, the error of the cache is kept
Debounce1StoreValueOnly(old, r) == <<r[1], old[2]>>

\* part_001:54: result, err = circuit(ctx)
Debounce1Store(old, r) == r

\* part_001:54-56: circuit(ctx) returns, the pair is cached and returned
DebounceVersion1CallReturn(c) ==
    /\ v1Pc[c] = "calling"
    /\ \E r \in CircuitResults :
          /\ v1Cache' = Debounce1Store(v1Cache, r)
          /\ Debounce1Return(c, v1Cache')
          /\ v1LastExec' = r
    /\ v1Execs' = v1Execs + 1
    /\ UNCHANGED <<v1D, v1Now, v1Budget, v1CheckedAt, v1PrevDone, v1PrevRet, v1Ran>>
    /\ UNCHANGED notDebounce1

\* part_001:43, 48: time.Now() advances
Debounce1Tick ==
    /\ v1Now < MaxDebounceTime
    /\ v1Now' = v1Now + 1
    /\ UNCHANGED <<v1D, v1Threshold, v1Cache, v1M, v1Pc, v1Budget, v1Execs,
                   v1LastDone, v1LastRet, v1CheckedAt, v1PrevDone, v1PrevRet,
                   v1Ran, v1Ret, v1Returned, v1LastExec>>
    /\ UNCHANGED notDebounce1

Debounce1Next ==
    \/ \E c \in DebounceCallers :
          \/ DebounceVersion1Invoke(c)
          \/ DebounceVersion1CallReturn(c)
    \/ Debounce1Tick

\* ================================================================ DebounceVersion2
\* The closure takes m (part_001:75) and keeps it until it returns (the
\* deferred Unlock of line 76); once.Do runs its function, the polling loop
\* of lines 93-109 included, in the calling goroutine; only lines 85-90 run
\* in a goroutine of their own. sync.Mutex is not reentrant: m.Lock() waits
\* until m is free, also when the goroutine that calls it is the holder.

\* the goroutine started at part_001:84
Debounce2StopperId == 0
\* the goroutines that call m.Lock()
Debounce2Goroutines == DebounceCallers \cup {Debounce2StopperId}

Debounce2Start ==
    /\ v2Threshold = 0
    /\ v2Cache = <<"", NoErr>>
    /\ v2M = 0
    /\ v2Once = "fresh"
    /\ v2Ticker = "none"
    /\ v2TickBuf = FALSE
    /\ v2Stopper = "none"
    /\ v2Now = 0
    /\ v2Pc = [c \in DebounceCallers |-> "idle"]
    /\ v2CtxDone = [c \in DebounceCallers |-> FALSE]
    /\ v2Execs = 0
    /\ v2Ret = [c \in DebounceCallers |-> <<"", NoErr>>]
    /\ v2Returned = [c \in DebounceCallers |-> FALSE]

\* part_001:60-72: DebounceVersion2(circuit, d); threshold := time.Now()
Debounce2Init ==
    /\ v2D \in 0..MaxCooldown
    /\ v2Budget = MaxDebounceCalls
    /\ Debounce2Start

\* the DebounceVersion2 wrapper while another decorator runs
Debounce2Idle ==
    /\ v2D = 0
    /\ v2Budget = 0
    /\ Debounce2Start

\* where goroutine g stands
Debounce2At(g) == IF g = Debounce2StopperId THEN v2Stopper ELSE v2Pc[g]

\* part_001:97: time.Now().After(threshold)
Debounce2Due(t, th) == t > th

\* part_001:79-82, 84, 111: with m held the closure pushes the threshold and
\* calls once.Do: the first caller starts the ticker and the goroutine of line
\* 84 and enters the polling loop, still holding m; once the Once is done the
\* closure returns the cached pair and the deferred Unlock frees m
Debounce2Enter(c) ==
    /\ v2Threshold' = v2Now + v2D
    /\ IF v2Once = "fresh"
       THEN /\ v2Once' = "running"
            /\ v2Ticker' = "on"
            /\ v2Stopper' = "lock85"
            /\ v2M' = c
            /\ v2Pc' = [v2Pc EXCEPT ![c] = "select"]
            /\ UNCHANGED <<v2Ret, v2Returned>>
       ELSE IF v2Once = "done"
       THEN /\ v2M' = 0
            /\ v2Pc' = [v2Pc EXCEPT ![c] = "idle"]
            /\ v2Ret' = [v2Ret EXCEPT ![c] = v2Cache]
            /\ v2Returned' = [v2Returned EXCEPT ![c] = TRUE]
            /\ UNCHANGED <<v2Once, v2Ticker, v2Stopper>>
       ELSE /\ v2M' = c
            /\ v2Pc' = [v2Pc EXCEPT ![c] = "onceWait"]
            /\ UNCHANGED <<v2Once, v2Ticker, v2Stopper, v2Ret, v2Returned>>
    /\ UNCHANGED <<v2Cache, v2TickBuf, v2Execs>>

\* part_001:85-90: ticker.Stop(); once = sync.Once{}; m.Unlock()
Debounce2Stop ==
    /\ v2Ticker' = "stopped"
    /\ v2Once' = "fresh"
    /\ v2Stopper' = "done"
    /\ v2M' = 0
    /\ UNCHANGED <<v2Threshold, v2Cache, v2TickBuf, v2Pc, v2Execs, v2Ret, v2Returned>>

\* part_001:96-102, 111, 76: the tick case with m taken: past the threshold
\* circuit(ctx) runs under m, its pair is cached, m is unlocked and the
\* function of once.Do returns; the closure's return then runs the deferred
\* m.Unlock() on a mutex that is not locked, which is a fatal error of the Go
\* runtime. Before the threshold m is unlocked and the loop goes on
Debounce2OnTick(c) ==
    /\ IF Debounce2Due(v2Now, v2Threshold)
       THEN /\ \E r \in CircuitResults : v2Cache' = r
            /\ v2Execs' = v2Execs + 1
            /\ v2Once' = "done"
            /\ v2Pc' = [v2Pc EXCEPT ![c] = "fatal"]
       ELSE /\ v2Pc' = [v2Pc EXCEPT ![c] = "select"]
            /\ UNCHANGED <<v2Cache, v2Execs, v2Once>>
    /\ v2M' = 0
    /\ UNCHANGED <<v2Threshold, v2Ticker, v2TickBuf, v2Stopper, v2Ret, v2Returned>>

\* part_001:104-107, 111, 76: the ctx case with m taken: the pair
\* ("", ctx.Err()) is cached, m is unlocked, the function of once.Do returns
\* and the closure's deferred m.Unlock() finds m not locked
Debounce2OnCtx(c) ==
    /\ v2Cache' = <<"", CtxErr>>
    /\ v2Once' = "done"
    /\ v2Pc' = [v2Pc EXCEPT ![c] = "fatal"]
    /\ v2M' = 0
    /\ UNCHANGED <<v2Threshold, v2Ticker, v2TickBuf, v2Stopper, v2Execs, v2Ret,
                   v2Returned>>

\* part_001:74: the wrapper is invoked and reaches m.Lock()
DebounceVersion2Call(c) ==
    /\ v2Pc[c] = "idle"
    /\ v2Budget > 0
    /\ v2Budget' = v2Budget - 1
    /\ v2Pc' = [v2Pc EXCEPT ![c] = "lock75"]
    /\ v2Returned' = [v2Returned EXCEPT ![c] = FALSE]
    /\ UNCHANGED <<v2D, v2Threshold, v2Cache, v2M, v2Once, v2Ticker, v2TickBuf,
                   v2Stopper, v2Now, v2CtxDone, v2Execs, v2Ret>>
    /\ UNCHANGED notDebounce2

\* mutant of Debounce2MutexFree: m.Lock() does not wait
Debounce2MutexIgnored(m) == TRUE

\* part_001:75, 85, 96, 104: m.Lock() returns once no goroutine holds m
Debounce2MutexFree(m) == m = 0

\* part_001:93-109: where a caller stands while it runs the polling loop
Debounce2InLoop == {"select", "parked", "lock96", "lock104"}

\* part_001:75, 85, 96, 104: m.Lock() succeeds for a goroutine that waits in
\* it, m being free; the goroutine runs on to its m.Unlock() or to the place
\* where it waits next
Debounce2Lock(g) ==
    /\ Debounce2MutexFree(v2M)
    /\ Debounce2At(g) \in {"lock75", "lock85", "lock96", "lock104"}
    /\ CASE Debounce2At(g) = "lock75" -> Debounce2Enter(g)
         [] Debounce2At(g) = "lock85" -> Debounce2Stop
         [] Debounce2At(g) = "lock96" -> Debounce2OnTick(g)
         [] Debounce2At(g) = "lock104" -> Debounce2OnCtx(g)
    /\ UNCHANGED <<v2D, v2Now, v2CtxDone, v2Budget>>
    /\ UNCHANGED notDebounce2

\* part_001:94-103: the cases of the polling select that are ready
Debounce2SelectReady(tick, ctxDone) ==
    (IF tick THEN {"tick"} ELSE {}) \cup (IF ctxDone THEN {"ctx"} ELSE {})

\* part_001:94-104: the select polls its cases and parks when none is ready;
\* the case taken leads to m.Lock() at line 96 or 104
Debounce2SelectPoll(c) ==
    /\ v2Pc[c] = "select"
    /\ LET ready == Debounce2SelectReady(v2TickBuf, v2CtxDone[c])
       IN IF ready = {}
          THEN /\ v2Pc' = [v2Pc EXCEPT ![c] = "parked"]
               /\ UNCHANGED v2TickBuf
          ELSE \E k \in ready :
                  /\ v2Pc' = [v2Pc EXCEPT ![c] = IF k = "tick" THEN "lock96" ELSE "lock104"]
                  /\ v2TickBuf' = (v2TickBuf /\ k # "tick")
    /\ UNCHANGED <<v2D, v2Threshold, v2Cache, v2M, v2Once, v2Ticker, v2Stopper,
                   v2Now, v2CtxDone, v2Budget, v2Execs, v2Ret, v2Returned>>
    /\ UNCHANGED notDebounce2

\* part_001:82, 95: the ticker delivers a tick, to the parked select or into
\* the one-slot buffer of ticker.C
Debounce2TickerFire ==
    /\ v2Ticker = "on"
    /\ ~v2TickBuf
    /\ IF \E c \in DebounceCallers : v2Pc[c] = "parked"
       THEN /\ v2Pc' = [c \in DebounceCallers |->
                           IF v2Pc[c] = "parked" THEN "lock96" ELSE v2Pc[c]]
            /\ UNCHANGED v2TickBuf
       ELSE /\ v2TickBuf' = TRUE
            /\ UNCHANGED v2Pc
    /\ UNCHANGED <<v2D, v2Threshold, v2Cache, v2M, v2Once, v2Ticker, v2Stopper,
                   v2Now, v2CtxDone, v2Budget, v2Execs, v2Ret, v2Returned>>
    /\ UNCHANGED notDebounce2

\* part_001:103: the context of caller c ends; a select parked on ctx.Done()
\* takes that case
Debounce2CtxCancel(c) ==
    /\ ~v2CtxDone[c]
    /\ v2CtxDone' = [v2CtxDone EXCEPT ![c] = TRUE]
    /\ v2Pc' = [v2Pc EXCEPT ![c] = IF @ = "parked" THEN "lock104" ELSE @]
    /\ UNCHANGED <<v2D, v2Threshold, v2Cache, v2M, v2Once, v2Ticker, v2TickBuf,
                   v2Stopper, v2Now, v2Budget, v2Execs, v2Ret, v2Returned>>
    /\ UNCHANGED notDebounce2

\* part_001:79, 97: time.Now() advances; the clock can always pass the threshold
Debounce2Tick ==
    /\ v2Now < MaxDebounceTime \/ v2Now <= v2Threshold
    /\ v2Now' = v2Now + 1
    /\ UNCHANGED <<v2D, v2Threshold, v2Cache, v2M, v2Once, v2Ticker, v2TickBuf,
                   v2Stopper, v2Pc, v2CtxDone, v2Budget, v2Execs, v2Ret, v2Returned>>
    /\ UNCHANGED notDebounce2

Debounce2Next ==
    \/ \E c \in DebounceCallers :
          \/ DebounceVersion2Call(c)
          \/ Debounce2SelectPoll(c)
          \/ Debounce2CtxCancel(c)
    \/ \E g \in Debounce2Goroutines : Debounce2Lock(g)
    \/ Debounce2TickerFire
    \/ Debounce2Tick

\* ================================================================ restrictPrefix
\* bound: longest r.URL.Path, in characters
MaxPathLen == 5
\* bound: longest prefix, in characters
MaxPrefixLen == 2

\* the characters paths and prefixes are made of
PathChars == {"/", ".", "a"}

\* the strings over PathChars of length up to n
StringsUpTo(n) == UNION {[1..k -> PathChars] : k \in 0..n}

\* strings.Split(s, "/"): the pieces between the slashes, Split("", "/")
\* being one empty piece
RECURSIVE SplitFrom(_, _, _)
SplitFrom(s, i, piece) ==
    IF i > Len(s) THEN <<piece>>
    ELSE IF s[i] = "/" THEN <<piece>> \o SplitFrom(s, i + 1, <<>>)
    ELSE SplitFrom(s, i + 1, Append(piece, s[i]))

Split(s) == SplitFrom(s, 1, <<>>)

\* strings.Join(elems, "/")
RECURSIVE Join(_)
Join(elems) ==
    IF elems = <<>> THEN <<>>
    ELSE IF Len(elems) = 1 THEN elems[1]
    ELSE elems[1] \o <<"/">> \o Join(Tail(elems))

\* path.Clean, the elements kept: empty and "." elements are dropped, ".."
\* removes the element before it, is dropped at the root of a rooted path
\* and is kept otherwise
RECURSIVE CleanElems(_, _, _, _)
CleanElems(elems, i, kept, rooted) ==
    IF i > Len(elems) THEN kept
    ELSE LET e == elems[i]
         IN IF e = <<>> \/ e = <<".">>
            THEN CleanElems(elems, i + 1, kept, rooted)
            ELSE IF e = <<".", ".">>
            THEN IF kept # <<>> /\ kept[Len(kept)] # <<".", ".">>
                 THEN CleanElems(elems, i + 1, SubSeq(kept, 1, Len(kept) - 1), rooted)
                 ELSE IF rooted
                 THEN CleanElems(elems, i + 1, kept, rooted)
                 ELSE CleanElems(elems, i + 1, Append(kept, e), rooted)
            ELSE CleanElems(elems, i + 1, Append(kept, e), rooted)

\* path.Clean(p): the shortest equivalent path; "." for an empty result
Clean(p) ==
    LET rooted == Len(p) > 0 /\ p[1] = "/"
        kept == CleanElems(Split(p), 1, <<>>, rooted)
    IN IF rooted THEN <<"/">> \o Join(kept)
       ELSE IF kept = <<>> THEN <<".">>
       ELSE Join(kept)

\* mutant of HasPrefix: the segment has to be the prefix itself
HasPrefixExact(s, prefix) == s = prefix

\* strings.HasPrefix(s, prefix)
HasPrefix(s, prefix) ==
    Len(s) >= Len(prefix) /\ SubSeq(s, 1, Len(prefix)) = prefix

\* main.go:14-19: the loop over the segments, true when it reaches http.Error
RECURSIVE Restricted(_, _, _)
Restricted(separated, i, prefix) ==
    IF i > Len(separated) THEN FALSE
    ELSE IF HasPrefix(separated[i], prefix) THEN TRUE
    ELSE Restricted(separated, i + 1, prefix)

\* main.go:16: http.Error(w, "Not Found", http.StatusNotFound)
NotFound == "404 Not Found"
\* main.go:22: the response is the one next writes
FromNext == "next.ServeHTTP(w, r)"

HttpStart ==
    /\ hPc = "request"
    /\ hStatus = "none"
    /\ hNextCalls = 0

\* main.go:9: restrictPrefix(prefix, next), and a request for it
HttpInit ==
    /\ hPath \in StringsUpTo(MaxPathLen)
    /\ hPrefix \in StringsUpTo(MaxPrefixLen)
    /\ HttpStart

\* the handler while a decorator runs
HttpIdle ==
    /\ hPath = <<>>
    /\ hPrefix = <<>>
    /\ HttpStart

\* main.go:10-23: the handler serves the request
RestrictPrefixServe ==
    /\ hPc = "request"
    /\ LET cleaned == Clean(hPath)
           separated == Split(cleaned)
       IN IF Restricted(separated, 1, hPrefix)
          THEN /\ hStatus' = NotFound
               /\ UNCHANGED hNextCalls
          ELSE /\ hStatus' = FromNext
               /\ hNextCalls' = hNextCalls + 1
    /\ hPc' = "done"
    /\ UNCHANGED <<hPath, hPrefix>>
    /\ UNCHANGED notHttp

HttpNext == RestrictPrefixServe

\* ================================================================ Breaker, the backoff window in 64 bits
\* bound: largest consecutiveFailures the check is run with
MaxFailures == 66
\* bound: the check is run up to 2^MaxSinceShift seconds after lastAttempt
MaxSinceShift == 3

\* throttle.go:286: time.Second * 2, a time.Duration (int64 nanoseconds)
TwoSeconds == 2000000000
\* one second in nanoseconds, the unit of time.Now() here
OneSecond == 1000000000

\* the bits of an int64
Int64Bits == 0..63
SignBit == 63

\* a Duration below 2^31 as an int64
ToInt64(n) ==
    [i \in Int64Bits |-> IF i > 30 THEN 0 ELSE (n \div Pow2(i)) % 2]

\* throttle.go:286: x << s on int64: the bits shifted past bit 63 are lost,
\* and a shift by 64 or more leaves 0
Shl64(x, s) == [i \in Int64Bits |-> IF i >= s THEN x[i - s] ELSE 0]

\* x + 1 for an even x
Succ64(x) == [x EXCEPT ![0] = 1]

\* x < y on int64 (two's complement)
Less64(x, y) ==
    IF x[SignBit] # y[SignBit]
    THEN x[SignBit] = 1
    ELSE \E i \in 0..(SignBit - 1) :
            /\ x[i] < y[i]
            /\ \A j \in (i + 1)..(SignBit - 1) : x[j] = y[j]

\* throttle.go:286: time.Second * 2 << d
BreakerBackoff64(d) == Shl64(ToInt64(TwoSeconds), d)

\* time.Now().Sub(lastAttempt) when the check runs
WindowSince(shift, extra) ==
    LET whole == Shl64(ToInt64(OneSecond), shift)
    IN IF extra = 1 THEN Succ64(whole) ELSE whole

\* throttle.go:284-288 in 64 bits: d >= 0 and time.Now() is not after
\* lastAttempt.Add(backoff), that is backoff is not less than the time since
\* lastAttempt
BreakerRejects64(d, since) ==
    d >= 0 /\ ~Less64(BreakerBackoff64(d), since)

WindowStart ==
    /\ wPc = "check"
    /\ wBackoff = ToInt64(0)
    /\ wRejected = FALSE

\* throttle.go:270-283: Breaker(circuit, failureThreshold) with any int for
\* failureThreshold; consecutiveFailures as concurrent failing calls leave it
WindowInit ==
    /\ wFailures \in 0..MaxFailures
    /\ wThreshold \in {0 - 1, 0, 1}
    /\ wSince \in 0..MaxSinceShift
    /\ wExtra \in {0, 1}
    /\ WindowStart

\* the check while a decorator runs
WindowIdle ==
    /\ wFailures = 0
    /\ wThreshold = 0
    /\ wSince = 0
    /\ wExtra = 0
    /\ WindowStart

\* throttle.go:283-293: the open/closed check of one invocation
BreakerCheck ==
    /\ wPc = "check"
    /\ LET d == wFailures - wThreshold
       IN /\ wBackoff' = IF d >= 0 THEN BreakerBackoff64(d) ELSE wBackoff
          /\ wRejected' = BreakerRejects64(d, WindowSince(wSince, wExtra))
    /\ wPc' = "done"
    /\ UNCHANGED <<wFailures, wThreshold, wSince, wExtra>>
    /\ UNCHANGED notWindow

WindowNext == BreakerCheck

\* ================================================================ datagramEchoServer
\* bound: datagrams clients send in one run
MaxDatagrams == 4
\* the networks of net.ListenPacket that are used with a socket file or without
EchoNetworks == {"unixgram", "udp"}

EchoStart ==
    /\ eCtxDone = FALSE
    /\ ePc = "new"
    /\ eSockOpen = FALSE
    /\ eFile = FALSE
    /\ eInbox = 0
    /\ eSent = 0
    /\ eEchoed = 0

\* unixgram/main.go:11: datagramEchoServer(ctx, network, addr)
EchoInit ==
    /\ eNetwork \in EchoNetworks
    /\ EchoStart

\* the echo server while a decorator runs
EchoIdle ==
    /\ eNetwork = "udp"
    /\ EchoStart

\* unixgram/main.go:12-17, 46: net.ListenPacket fails and the error is
\* returned, or it binds the socket (creating the socket file of a unixgram
\* address) and the goroutine of line 17 starts and reaches s.ReadFrom
EchoListen ==
    /\ ePc = "new"
    /\ \E ok \in BOOLEAN :
          IF ok
          THEN /\ ePc' = "read"
               /\ eSockOpen' = TRUE
               /\ eFile' = (eNetwork = "unixgram")
          ELSE /\ ePc' = "failed"
               /\ UNCHANGED <<eSockOpen, eFile>>
    /\ UNCHANGED <<eNetwork, eCtxDone, eInbox, eSent, eEchoed>>
    /\ UNCHANGED notEcho

\* a client sends a datagram to the server's address while the socket is open
EchoClientSend ==
    /\ eSockOpen
    /\ eSent < MaxDatagrams
    /\ eSent' = eSent + 1
    /\ eInbox' = eInbox + 1
    /\ UNCHANGED <<eNetwork, eCtxDone, ePc, eSockOpen, eFile, eEchoed>>
    /\ UNCHANGED notEcho

\* unixgram/main.go:33-36: s.ReadFrom(buf) returns a datagram that has
\* arrived; it does not look at ctx, and the socket is open as long as the
\* goroutine is in the loop
EchoReadFrom ==
    /\ ePc = "read"
    /\ eInbox > 0
    /\ eInbox' = eInbox - 1
    /\ ePc' = "write"
    /\ UNCHANGED <<eNetwork, eCtxDone, eSockOpen, eFile, eSent, eEchoed>>
    /\ UNCHANGED notEcho

\* unixgram/main.go:39-42: s.WriteTo echoes the datagram and the loop goes
\* back to s.ReadFrom, or it fails (the client's socket is gone) and the
\* goroutine returns into the deferred function, which waits for ctx.Done()
EchoWriteTo ==
    /\ ePc = "write"
    /\ \E ok \in BOOLEAN :
          IF ok
          THEN ePc' = "read" /\ eEchoed' = eEchoed + 1
          ELSE ePc' = "deferWait" /\ UNCHANGED eEchoed
    /\ UNCHANGED <<eNetwork, eCtxDone, eSockOpen, eFile, eInbox, eSent>>
    /\ UNCHANGED notEcho

\* unixgram/main.go:18-28: the deferred function, past <-ctx.Done(): s.Close()
\* and, for unixgram, os.Remove(addr)
EchoDeferred ==
    /\ ePc = "deferWait"
    /\ eCtxDone
    /\ eSockOpen' = FALSE
    /\ eFile' = (eFile /\ eNetwork # "unixgram")
    /\ ePc' = "exited"
    /\ UNCHANGED <<eNetwork, eCtxDone, eInbox, eSent, eEchoed>>
    /\ UNCHANGED notEcho

\* the owner of ctx cancels it
EchoCtxCancel ==
    /\ ~eCtxDone
    /\ eCtxDone' = TRUE
    /\ UNCHANGED <<eNetwork, ePc, eSockOpen, eFile, eInbox, eSent, eEchoed>>
    /\ UNCHANGED notEcho

EchoNext ==
    \/ EchoListen
    \/ EchoClientSend
    \/ EchoReadFrom
    \/ EchoWriteTo
    \/ EchoDeferred
    \/ EchoCtxCancel

\* ================================================================ funnel (fan-in)
\* bound: source channels handed to funnel
NumSources == 2
\* bound: values a producer sends on its source before it closes it
MaxValues == 2

FunnelSources == 1..NumSources

\* mutant of FunnelWgAdd: one source is not counted
FunnelWgAddShort(n) == n - 1

\* fan-in/main.go:13: wg.Add(len(sources))
FunnelWgAdd(n) == n

\* fan-in/main.go:9-30: funnel(sources...) has started its goroutines
\* (sources and dest are unbuffered: a send completes with its receive)
FunnelStart(srcs) ==
    /\ fnSent = [s \in FunnelSources |-> 0]
    /\ fnSrcClosed = [s \in FunnelSources |-> FALSE]
    /\ fnPc = [s \in FunnelSources |-> IF s \in srcs THEN "recv" ELSE "done"]
    /\ fnHeld = [s \in FunnelSources |-> 0]
    /\ fnWg = FunnelWgAdd(Cardinality(srcs))
    /\ fnCloser = "wait"
    /\ fnCloses = 0
    /\ fnPanic = FALSE
    /\ fnDest = <<>>
    /\ fnConsumer = "range"

FunnelInit == FunnelStart(FunnelSources)

\* funnel while a decorator runs
FunnelIdle == FunnelStart({})

\* fan-in/main.go:43, 18: a producer sends its next value on source s and the
\* goroutine of s receives it from range ch
FunnelReceive(s) ==
    /\ fnPc[s] = "recv"
    /\ ~fnSrcClosed[s]
    /\ fnSent[s] < MaxValues
    /\ fnSent' = [fnSent EXCEPT ![s] = @ + 1]
    /\ fnHeld' = [fnHeld EXCEPT ![s] = fnSent[s] + 1]
    /\ fnPc' = [fnPc EXCEPT ![s] = "send"]
    /\ UNCHANGED <<fnSrcClosed, fnWg, fnCloser, fnCloses, fnPanic, fnDest, fnConsumer>>
    /\ UNCHANGED notFunnel

\* fan-in/main.go:41: the producer of source s closes it
FunnelSourceClose(s) ==
    /\ ~fnSrcClosed[s]
    /\ fnSrcClosed' = [fnSrcClosed EXCEPT ![s] = TRUE]
    /\ UNCHANGED <<fnSent, fnPc, fnHeld, fnWg, fnCloser, fnCloses, fnPanic,
                   fnDest, fnConsumer>>
    /\ UNCHANGED notFunnel

\* fan-in/main.go:19, 51: dest <- n completes with the reader's receive; a
\* send on a closed channel panics
FunnelSend(s) ==
    /\ fnPc[s] = "send"
    /\ IF fnCloses > 0
       THEN /\ fnPanic' = TRUE
            /\ fnPc' = [fnPc EXCEPT ![s] = "done"]
            /\ UNCHANGED <<fnDest, fnHeld>>
       ELSE /\ fnConsumer = "range"
            /\ fnDest' = Append(fnDest, <<s, fnHeld[s]>>)
            /\ fnHeld' = [fnHeld EXCEPT ![s] = 0]
            /\ fnPc' = [fnPc EXCEPT ![s] = "recv"]
            /\ UNCHANGED fnPanic
    /\ UNCHANGED <<fnSent, fnSrcClosed, fnWg, fnCloser, fnCloses, fnConsumer>>
    /\ UNCHANGED notFunnel

\* fan-in/main.go:17-20: range ch ends on the closed, empty source; the
\* deferred wg.Done() runs
FunnelDone(s) ==
    /\ fnPc[s] = "recv"
    /\ fnSrcClosed[s]
    /\ fnPc' = [fnPc EXCEPT ![s] = "done"]
    /\ fnWg' = fnWg - 1
    /\ UNCHANGED <<fnSent, fnSrcClosed, fnHeld, fnCloser, fnCloses, fnPanic,
                   fnDest, fnConsumer>>
    /\ UNCHANGED notFunnel

\* fan-in/main.go:25-28: wg.Wait() returns at counter 0, then close(dest)
FunnelClose ==
    /\ fnCloser = "wait"
    /\ fnWg = 0
    /\ fnCloser' = "done"
    /\ fnCloses' = fnCloses + 1
    /\ UNCHANGED <<fnSent, fnSrcClosed, fnPc, fnHeld, fnWg, fnPanic, fnDest,
                   fnConsumer>>
    /\ UNCHANGED notFunnel

\* fan-in/main.go:51-53: range dest ends on the closed dest
FunnelConsumerEnd ==
    /\ fnConsumer = "range"
    /\ fnCloses > 0
    /\ fnConsumer' = "done"
    /\ UNCHANGED <<fnSent, fnSrcClosed, fnPc, fnHeld, fnWg, fnCloser, fnCloses,
                   fnPanic, fnDest>>
    /\ UNCHANGED notFunnel

FunnelNext ==
    \/ \E s \in FunnelSources :
          \/ FunnelReceive(s)
          \/ FunnelSourceClose(s)
          \/ FunnelSend(s)
          \/ FunnelDone(s)
    \/ FunnelClose
    \/ FunnelConsumerEnd

\* ================================================================ split (fan-out)
\* bound: the n of split(source, n)
NumDests == 2
\* bound: values the producer sends on source
MaxSplitValues == 3

SplitDests == 1..NumDests

\* fan-out/main.go:8-27, 41-51: split(source, n) has started its goroutines
\* and main the consumers (source and the destinations are unbuffered)
SplitStart(dests) ==
    /\ spSent = 0
    /\ spSrcClosed = FALSE
    /\ spPc = [w \in SplitDests |-> IF w \in dests THEN "recv" ELSE "done"]
    /\ spHeld = [w \in SplitDests |-> 0]
    /\ spCloses = [w \in SplitDests |-> 0]
    /\ spGot = [w \in SplitDests |-> <<>>]
    /\ spConsumer = [w \in SplitDests |-> IF w \in dests THEN "range" ELSE "done"]
    /\ spWg = Cardinality(dests)
    /\ spMain = "wait"

SplitInit == SplitStart(SplitDests)

\* split while a decorator runs
SplitIdle == SplitStart({})

\* fan-out/main.go:36, 19: the producer sends the next value on source and
\* one of the goroutines waiting in range source receives it
SplitReceive(w) ==
    /\ spPc[w] = "recv"
    /\ ~spSrcClosed
    /\ spSent < MaxSplitValues
    /\ spSent' = spSent + 1
    /\ spHeld' = [spHeld EXCEPT ![w] = spSent + 1]
    /\ spPc' = [spPc EXCEPT ![w] = "send"]
    /\ UNCHANGED <<spSrcClosed, spCloses, spGot, spConsumer, spWg, spMain>>
    /\ UNCHANGED notSplit

\* fan-out/main.go:38: close(source); the producer is not inside a send
SplitSourceClose ==
    /\ ~spSrcClosed
    /\ spSrcClosed' = TRUE
    /\ UNCHANGED <<spSent, spPc, spHeld, spCloses, spGot, spConsumer, spWg, spMain>>
    /\ UNCHANGED notSplit

\* mutant of SplitDeliver: the value does not reach the consumer
SplitDeliverDropped(got, val) == got

\* fan-out/main.go:20, 47: ch <- val completes with the consumer's receive
SplitDeliver(got, val) == Append(got, val)

\* fan-out/main.go:20: the goroutine of destination w hands val to the
\* consumer of w and goes back to range source
SplitSend(w) ==
    /\ spPc[w] = "send"
    /\ spConsumer[w] = "range"
    /\ spGot' = [spGot EXCEPT ![w] = SplitDeliver(@, spHeld[w])]
    /\ spHeld' = [spHeld EXCEPT ![w] = 0]
    /\ spPc' = [spPc EXCEPT ![w] = "recv"]
    /\ UNCHANGED <<spSent, spSrcClosed, spCloses, spConsumer, spWg, spMain>>
    /\ UNCHANGED notSplit

\* fan-out/main.go:17-21: range source ends on the closed source; the
\* deferred close(ch) runs
SplitDone(w) ==
    /\ spPc[w] = "recv"
    /\ spSrcClosed
    /\ spPc' = [spPc EXCEPT ![w] = "done"]
    /\ spCloses' = [spCloses EXCEPT ![w] = @ + 1]
    /\ UNCHANGED <<spSent, spSrcClosed, spHeld, spGot, spConsumer, spWg, spMain>>
    /\ UNCHANGED notSplit

\* fan-out/main.go:46-49: range ch ends on the closed destination; the
\* deferred wg.Done() runs
SplitConsumerEnd(w) ==
    /\ spConsumer[w] = "range"
    /\ spCloses[w] > 0
    /\ spConsumer' = [spConsumer EXCEPT ![w] = "done"]
    /\ spWg' = spWg - 1
    /\ UNCHANGED <<spSent, spSrcClosed, spPc, spHeld, spCloses, spGot, spMain>>
    /\ UNCHANGED notSplit

\* fan-out/main.go:53: wg.Wait() returns at counter 0
SplitMainEnd ==
    /\ spMain = "wait"
    /\ spWg = 0
    /\ spMain' = "done"
    /\ UNCHANGED <<spSent, spSrcClosed, spPc, spHeld, spCloses, spGot,
                   spConsumer, spWg>>
    /\ UNCHANGED notSplit

SplitNext ==
    \/ \E w \in SplitDests :
          \/ SplitReceive(w)
          \/ SplitSend(w)
          \/ SplitDone(w)
          \/ SplitConsumerEnd(w)
    \/ SplitSourceClose
    \/ SplitMainEnd

\* ================================================================ specifications
InitRetry ==
    RetryInit /\ ThrottleIdle /\ TimeoutIdle /\ BreakerIdle /\ Debounce1Idle
    /\ Debounce2Idle
    /\ HttpIdle
    /\ WindowIdle
    /\ EchoIdle
    /\ FunnelIdle
    /\ SplitIdle
    /\ decorator = "Retry"

InitThrottle ==
    RetryIdle /\ ThrottleInit /\ TimeoutIdle /\ BreakerIdle /\ Debounce1Idle
    /\ Debounce2Idle
    /\ HttpIdle
    /\ WindowIdle
    /\ EchoIdle
    /\ FunnelIdle
    /\ SplitIdle
    /\ decorator = "Throttle"

InitThrottleMain ==
    RetryIdle /\ ThrottleMainInit /\ TimeoutIdle /\ BreakerIdle /\ Debounce1Idle
    /\ Debounce2Idle
    /\ HttpIdle
    /\ WindowIdle
    /\ EchoIdle
    /\ FunnelIdle
    /\ SplitIdle
    /\ decorator = "Throttle"

InitTimeout ==
    RetryIdle /\ ThrottleIdle /\ TimeoutInit /\ BreakerIdle /\ Debounce1Idle
    /\ Debounce2Idle
    /\ HttpIdle
    /\ WindowIdle
    /\ EchoIdle
    /\ FunnelIdle
    /\ SplitIdle
    /\ decorator = "Timeout"

InitBreaker ==
    RetryIdle /\ ThrottleIdle /\ TimeoutIdle /\ BreakerInit /\ Debounce1Idle
    /\ Debounce2Idle
    /\ HttpIdle
    /\ WindowIdle
    /\ EchoIdle
    /\ FunnelIdle
    /\ SplitIdle
    /\ decorator = "Breaker"

SpecRetry == InitRetry /\ [][RetryNext]_vars

SpecThrottle == InitThrottle /\ [][ThrottleNext]_vars

SpecThrottleMain == InitThrottleMain /\ [][ThrottleMainNext]_vars

\* the Go scheduler runs the refill goroutine whenever it can take a step
SpecThrottleFair ==
    /\ SpecThrottle
    /\ WF_vars(ThrottleRefillSelect)
    /\ WF_vars(ThrottleRefillWrite)

SpecTimeout == InitTimeout /\ [][TimeoutNext]_vars

\* the Go scheduler runs every runnable goroutine: a send that can proceed
\* does proceed, and a woken select runs
SpecTimeoutFair ==
    /\ SpecTimeout
    /\ \A i \in TimeoutInvs : WF_vars(TimeoutTaskSend(i)) /\ WF_vars(TimeoutWake(i))

SpecBreaker == InitBreaker /\ [][BreakerNext]_vars

InitDebounce1 ==
    RetryIdle /\ ThrottleIdle /\ TimeoutIdle /\ BreakerIdle /\ Debounce1Init
    /\ Debounce2Idle
    /\ HttpIdle
    /\ WindowIdle
    /\ EchoIdle
    /\ FunnelIdle
    /\ SplitIdle
    /\ decorator = "DebounceVersion1"

SpecDebounce1 == InitDebounce1 /\ [][Debounce1Next]_vars

InitDebounce2 ==
    RetryIdle /\ ThrottleIdle /\ TimeoutIdle /\ BreakerIdle /\ Debounce1Idle
    /\ Debounce2Init
    /\ HttpIdle
    /\ WindowIdle
    /\ EchoIdle
    /\ FunnelIdle
    /\ SplitIdle
    /\ decorator = "DebounceVersion2"

SpecDebounce2 == InitDebounce2 /\ [][Debounce2Next]_vars

\* the Go scheduler runs every runnable goroutine, the ticker keeps ticking
\* and time passes; callers need not invoke again and contexts need not end
SpecDebounce2Fair ==
    /\ SpecDebounce2
    /\ \A g \in Debounce2Goroutines : WF_vars(Debounce2Lock(g))
    /\ \A c \in DebounceCallers : WF_vars(Debounce2SelectPoll(c))
    /\ WF_vars(Debounce2TickerFire)
    /\ WF_vars(Debounce2Tick)

\* the decorators that call the wrapped function directly: a behaviour runs
\* one of them
InitDirect == InitThrottle \/ InitBreaker \/ InitDebounce1

DirectNext ==
    \/ decorator = "Throttle" /\ ThrottleNext
    \/ decorator = "Breaker" /\ BreakerNext
    \/ decorator = "DebounceVersion1" /\ Debounce1Next

SpecDirect == InitDirect /\ [][DirectNext]_vars

\* the two Debounce variants: a behaviour runs one of them
InitDebounce == InitDebounce1 \/ InitDebounce2

DebounceNext ==
    \/ decorator = "DebounceVersion1" /\ Debounce1Next
    \/ decorator = "DebounceVersion2" /\ Debounce2Next

SpecDebounce == InitDebounce /\ [][DebounceNext]_vars

InitWindow ==
    RetryIdle /\ ThrottleIdle /\ TimeoutIdle /\ BreakerIdle /\ Debounce1Idle
    /\ Debounce2Idle
    /\ HttpIdle
    /\ WindowInit
    /\ EchoIdle
    /\ FunnelIdle
    /\ SplitIdle
    /\ decorator = "Breaker"

SpecWindow == InitWindow /\ [][WindowNext]_vars

InitEcho ==
    RetryIdle /\ ThrottleIdle /\ TimeoutIdle /\ BreakerIdle /\ Debounce1Idle
    /\ Debounce2Idle
    /\ HttpIdle
    /\ WindowIdle
    /\ EchoInit
    /\ FunnelIdle
    /\ SplitIdle
    /\ decorator = "datagramEchoServer"

SpecEcho == InitEcho /\ [][EchoNext]_vars

\* the server's goroutine keeps running: a step it can take is taken
SpecEchoFair ==
    /\ SpecEcho
    /\ WF_vars(EchoListen)
    /\ WF_vars(EchoReadFrom)
    /\ WF_vars(EchoWriteTo)
    /\ WF_vars(EchoDeferred)

InitFunnel ==
    RetryIdle /\ ThrottleIdle /\ TimeoutIdle /\ BreakerIdle /\ Debounce1Idle
    /\ Debounce2Idle
    /\ HttpIdle
    /\ WindowIdle
    /\ EchoIdle
    /\ FunnelInit
    /\ SplitIdle
    /\ decorator = "funnel"

SpecFunnel == InitFunnel /\ [][FunnelNext]_vars

\* funnel's goroutines and the reader of dest keep running; a producer may
\* keep its source open for ever
SpecFunnelFair ==
    /\ SpecFunnel
    /\ \A s \in FunnelSources : WF_vars(FunnelSend(s)) /\ WF_vars(FunnelDone(s))
    /\ WF_vars(FunnelClose)

InitSplit ==
    RetryIdle /\ ThrottleIdle /\ TimeoutIdle /\ BreakerIdle /\ Debounce1Idle
    /\ Debounce2Idle
    /\ HttpIdle
    /\ WindowIdle
    /\ EchoIdle
    /\ FunnelIdle
    /\ SplitInit
    /\ decorator = "split"

SpecSplit == InitSplit /\ [][SplitNext]_vars

\* split's goroutines, the consumers and main keep running
SpecSplitFair ==
    /\ SpecSplit
    /\ \A w \in SplitDests :
          /\ WF_vars(SplitSend(w))
          /\ WF_vars(SplitDone(w))
          /\ WF_vars(SplitConsumerEnd(w))
    /\ WF_vars(SplitMainEnd)

InitHttp ==
    RetryIdle /\ ThrottleIdle /\ TimeoutIdle /\ BreakerIdle /\ Debounce1Idle
    /\ Debounce2Idle
    /\ HttpInit
    /\ WindowIdle
    /\ EchoIdle
    /\ FunnelIdle
    /\ SplitIdle
    /\ decorator = "restrictPrefix"

SpecHttp == InitHttp /\ [][HttpNext]_vars

\* ================================================================ claims
\* ---------------------------------------------------------------- Retry
\* C1: for every retries = n >= 0, an invocation whose context never ended
\* and whose attempts all failed has made exactly n+1 attempts when it
\* returns, and it returns the error of attempt n+1 itself.
C1_RetryExhausts ==
    \A i \in RetryInvs :
        (/\ rPc[i] = "done"
         /\ retries >= 0
         /\ ~rCtxDone[i]
         /\ rRet[i][2] # NoErr)
        => /\ rCalls[i] = retries + 1
           /\ rRet[i][2] = EffErr(retries + 1)

\* C1 witness: retries = MaxRetries, live context, all attempts failed
C1_Witness ==
    \E i \in RetryInvs :
        /\ rPc[i] = "done"
        /\ retries = MaxRetries
        /\ ~rCtxDone[i]
        /\ rCalls[i] = MaxRetries + 1
        /\ rRet[i][2] = EffErr(MaxRetries + 1)

\* C2: once the context ended while the invocation was parked in the select
\* of the inter-attempt delay, the invocation is committed to the ctx.Done()
\* case: it can return at once whether or not the timer has fired, what it
\* returns is ("", ctx.Err()), and it starts no further attempt.
C2_RetryCancelledWait ==
    \A i \in RetryInvs :
        rWaitCancel[i]
        => /\ rPc[i] \in {"wakeCtx", "done"}
           /\ rPc[i] = "wakeCtx" => ENABLED RetryWake(i)
           /\ rPc[i] = "done" => rRet[i] = <<"", CtxErr>>
           /\ rCalls[i] = rCallsAtCancel[i]
           /\ rInCall[i] = 0

\* C2 witness: the wrapper returned ctx.Err() after a failed attempt while
\* the delay's timer had not fired
C2_Witness ==
    \E i \in RetryInvs :
        /\ rWaitCancel[i]
        /\ rPc[i] = "done"
        /\ rTimer[i] = "armed"
        /\ rErr[i] # NoErr
        /\ rRet[i] = <<"", CtxErr>>

\* ---------------------------------------------------------------- Throttle
\* C3: in every reachable state of a throttled function, under any
\* interleaving of concurrent invocations and refill ticks,
\* 0 <= tokens <= max.  (Violated: neither version of Throttle holds a lock
\* around line 47-51 / 128-131.)
C3_TokensInRange == 0 <= tokens /\ tokens <= tMax

\* C4: between two refills the number of invocations admitted past the zero
\* check never exceeds the number of tokens available at the start of that
\* interval.  (Violated: the check and the decrement are not atomic.)
C4_AdmittedWithinTokens == tIntervalAdmitted <= tIntervalTokens

\* invocations of main's loop that have returned
ThrottleCompleted == tStarted - Cardinality({c \in ThrottleCallers : tPc[c] # "idle"})

\* C5: with max = 3 and refill = 1, while no tick has been delivered, the
\* first three invocations of main's sequential loop return the effector's
\* result and every later one returns the rate-limit error without invoking
\* the effector: after k returned invocations the effector has run min(k, 3)
\* times and k - min(k, 3) invocations were rate-limited; after all five,
\* 3 and 2.
C5_ThreeThenRateLimited ==
    (tTicks = 0 /\ tMax = 3 /\ tRefill = 1)
    => /\ tEffCalls = (IF ThrottleCompleted < 3 THEN ThrottleCompleted ELSE 3)
       /\ tRateLimited = ThrottleCompleted - tEffCalls
       /\ (ThrottleCompleted > 3 /\ tPc[1] = "idle") => tRet[1] = RateLimited
       /\ (ThrottleCompleted = MainCalls) => (tEffCalls = 3 /\ tRateLimited = 2)

\* C5 witness: the five calls are over, no tick came, the last was rate-limited
C5_Witness ==
    /\ tTicks = 0
    /\ tStarted = MainCalls
    /\ tPc[1] = "idle"
    /\ tEffCalls = 3
    /\ tRateLimited = 2
    /\ tRet[1] = RateLimited

\* ---------------------------------------------------------------- Breaker
\* caller c's latest invocation went ahead to the circuit
BreakerAdmitted(c) ==
    \/ bPc[c] = "call" /\ bCalls[c] = 0
    \/ bPc[c] = "update" /\ bCalls[c] = 1
    \/ bPc[c] = "idle" /\ bOrd[c] > 0 /\ bRet[c] \in {"failed", "ok"} /\ bCalls[c] = 1

\* caller c's latest invocation was rejected
BreakerRejected(c) ==
    bPc[c] = "idle" /\ bOrd[c] > 0 /\ bRet[c] = "service unreachable"

C6_WitnessTrial ==
    \E c \in BreakerCallers :
        /\ failureThreshold = 3 /\ ~bOverlap /\ bSucceeded = 0
        /\ bOrd[c] = 4
        /\ bCheckedAt[c] > bSawDone[c] + 2
        /\ bPc[c] = "update"
        /\ bExecuted = 4

\* C7 as stated: after a trial call admitted by an open breaker succeeded,
\* consecutiveFailures is 0 and the invocation that follows it executes the
\* circuit, whatever the threshold.  (Violated for failureThreshold = 0.)
C7_AsStated ==
    /\ bLastKind = "trial success" => consecutiveFailures = 0
    /\ \A c \in BreakerCallers :
          (bOrd[c] > 0 /\ bSawKind[c] = "trial success") => BreakerAdmitted(c)

\* C7 amended: for failureThreshold >= 1, after a trial call admitted by an
\* open breaker succeeded, consecutiveFailures is 0 and the invocation that
\* follows it executes the circuit, also inside what would have been the
\* backoff window.
C7_TrialSuccessCloses ==
    /\ bLastKind = "trial success" => consecutiveFailures = 0
    /\ \A c \in BreakerCallers :
          (failureThreshold >= 1 /\ bOrd[c] > 0 /\ bSawKind[c] = "trial success")
          => BreakerAdmitted(c)

\* C7 witness: an invocation made in the same second as the successful
\* trial completed ran the circuit
C7_Witness ==
    \E c \in BreakerCallers :
        /\ failureThreshold >= 1
        /\ bSawKind[c] = "trial success"
        /\ bCheckedAt[c] = bSawDone[c]
        /\ bPc[c] = "update"
        /\ bCalls[c] = 1

\* C8: an invocation made while consecutiveFailures >= threshold and
\* now <= retryAt returns "service unreachable" in that step, leaving
\* consecutiveFailures, lastAttempt and the number of circuit invocations
\* unchanged; a rejected invocation has never invoked the circuit.
C8_RejectLeavesState ==
    /\ [](\A c \in BreakerCallers : BreakerRejected(c) => bCalls[c] = 0)
    /\ [][\A c \in BreakerCallers :
            (/\ bOrd'[c] # bOrd[c]
             /\ consecutiveFailures >= failureThreshold
             /\ now <= lastAttempt
                       + BreakerBackoff(consecutiveFailures - failureThreshold))
            => /\ bRet'[c] = "service unreachable"
               /\ bPc'[c] = "idle"
               /\ bCalls'[c] = 0
               /\ UNCHANGED <<consecutiveFailures, lastAttempt, bExecuted>>]_vars

\* C8 witness: an invocation was rejected after the threshold was reached,
\* later than the last attempt
C8_Witness ==
    \E c \in BreakerCallers :
        /\ BreakerRejected(c)
        /\ failureThreshold >= 1
        /\ consecutiveFailures >= failureThreshold
        /\ bCheckedAt[c] > lastAttempt
        /\ bCalls[c] = 0

\* ---------------------------------------------------------------- Timeout
\* C9: when the case of the wrapper's select is decided while the context
\* has ended and the goroutine has not reported, the wrapper returns
\* ("", ctx.Err()); it can do so at once, while slow(data) is still running,
\* and the goroutine is left as it is: it can still take its next step.
C9_CtxBeforeReport ==
    \A i \in TimeoutInvs :
        (toPc[i] \in {"wakeCtx", "done"} /\ toCtxAtChoice[i] /\ ~toReported[i])
        => /\ toPc[i] = "done" => toRet[i] = <<"", CtxErr>>
           /\ toPc[i] = "wakeCtx" => ENABLED TimeoutWake(i)
           /\ toTask[i] = "running" => ENABLED TimeoutSlowReturn(i)
           /\ toTask[i] = "send" => ENABLED TimeoutTaskSend(i)
           /\ toTask[i] # "none"

\* C9 witness: the wrapper has returned ctx.Err() and slow(data) is still running
C9_Witness ==
    \E i \in TimeoutInvs :
        /\ toPc[i] = "done"
        /\ toCtxAtChoice[i] /\ ~toReported[i]
        /\ toRet[i] = <<"", CtxErr>>
        /\ toTask[i] = "running"

\* C10: the goroutine's send can always proceed, and a goroutine abandoned
\* by a wrapper that returned ctx.Err() finishes once slow(data) has returned,
\* although nobody receives from its channel.
C10_AbandonedTaskTerminates ==
    /\ [](\A i \in TimeoutInvs : toTask[i] = "send" => ENABLED TimeoutTaskSend(i))
    /\ \A i \in TimeoutInvs :
          (toPc[i] = "done" /\ toRet[i] = <<"", CtxErr>> /\ toTask[i] = "send")
          ~> (toTask[i] = "finished")

\* C10 witness: the wrapper returned ctx.Err(), the goroutine finished later
\* and its value sits unread in the channel
C10_Witness ==
    \E i \in TimeoutInvs :
        /\ toPc[i] = "done"
        /\ toRet[i] = <<"", CtxErr>>
        /\ ~toReported[i]
        /\ toTask[i] = "finished"
        /\ Len(toResCh[i]) + Len(toErrCh[i]) = 1

\* C20: whenever the context had ended at the moment the wrapper's select
\* chose its case, the wrapper returns ("", ctx.Err()), also when the
\* goroutine had already sent.
C20_CtxPriority ==
    \A i \in TimeoutInvs :
        (toPc[i] = "done" /\ toCtxAtChoice[i]) => toRet[i] = <<"", CtxErr>>

\* C20: the state the claim is about is reached: at the choice the context
\* had ended and the goroutine's value was in its channel
C20_BothReady ==
    \E i \in TimeoutInvs :
        toPc[i] = "done" /\ toCtxAtChoice[i] /\ toReported[i]

\* C11: when the wrapper chooses its outcome while the context has not ended
\* (slow(data) completed first), it returns exactly the pair slow returned.
C11_ResultUnaltered ==
    \A i \in TimeoutInvs :
        (toPc[i] = "done" /\ ~toCtxAtChoice[i]) => toRet[i] = toSlow[i]

\* C11, the part that holds: a successful slow call's value comes back with a
\* nil error
C11_SuccessUnaltered ==
    \A i \in TimeoutInvs :
        (toPc[i] = "done" /\ ~toCtxAtChoice[i] /\ toSlow[i][2] = NoErr)
        => toRet[i] = toSlow[i]

\* ---------------------------------------------------------------- Retry, success
\* C19: from the moment an attempt has returned a nil error the invocation
\* has returned that attempt's response with a nil error, no attempt is in
\* flight, and the attempts made number exactly the ordinal of that attempt.
C19_FirstSuccessReturns ==
    \A i \in RetryInvs :
        rOkAt[i] > 0
        => /\ rPc[i] = "done"
           /\ rRet[i] = <<rResp[i], NoErr>>
           /\ rResp[i] = "ok"
           /\ rCalls[i] = rOkAt[i]
           /\ rInCall[i] = 0
           /\ rCalls[i] = rR[i] + 1

\* C19 witness: the second attempt succeeded with retries to spare
C19_Witness ==
    \E i \in RetryInvs :
        /\ rOkAt[i] = 2
        /\ retries = MaxRetries
        /\ rRet[i] = <<"ok", NoErr>>

\* ---------------------------------------------------------------- Throttle, contexts
\* C16: an invocation of the throttled function whose context has already
\* ended returns ctx.Err() in its first step, without touching tokens and
\* without calling the effector, and it does not start the refill goroutine.
C16_CancelledCtxRejected ==
    [][\A c \in ThrottleCallers, x \in ThrottleCtxs :
          (ThrottleInvoke(c, x) /\ tCtxDone[x])
          => /\ tPc'[c] = "idle"
             /\ tRet'[c] = CtxOutcome
             /\ tokens' = tokens
             /\ tEffCalls' = tEffCalls]_vars

\* C16, the part that holds: the version of throttle.go:89, which tests
\* ctx.Err() first
C16_CheckedVersionRejects ==
    [][\A c \in ThrottleCallers, x \in ThrottleCtxs :
          (ThrottleInvoke(c, x) /\ tCtxDone[x] /\ tChecksCtx)
          => /\ tPc'[c] = "idle"
             /\ tRet'[c] = CtxOutcome
             /\ tokens' = tokens
             /\ tEffCalls' = tEffCalls]_vars

\* C17: at most one refill goroutine is ever started by one throttled
\* function, and it is started as soon as an invocation has passed once.Do.
C17_OneRefillTask ==
    /\ tRefills <= 1
    /\ tRefills = 1 <=> tOnceDone
    /\ tRefills = 0 <=> tRefillPc = "none"

\* C17 witness: two invocations with different contexts are in flight at the
\* same time, a third was made before, and one refill goroutine was started
C17_Witness ==
    /\ tRefills = 1
    /\ tStarted = 3
    /\ \A c \in ThrottleCallers : tPc[c] # "idle"
    /\ tRefillCtx = 1
    /\ tCtxDone[1]

\* C18 (safety part): once the refill goroutine has exited no step increases
\* tokens, and no step starts another refill goroutine.
C18_NoRefillAfterExit ==
    [][tRefillPc = "exited"
       => (tokens' <= tokens /\ tRefillPc' = "exited" /\ tRefills' = tRefills)]_vars

\* C18 (termination part): when the context captured by the refill goroutine
\* has ended, the goroutine exits, and it stays exited and is the only one.
C18_RefillTerminates ==
    /\ (tRefillPc # "none" /\ tCtxDone[tRefillCtx]) ~> (tRefillPc = "exited")
    /\ [][tRefillPc = "exited"
          => (tRefillPc' = "exited" /\ tRefills' = tRefills)]_vars

C13_InvocationReturns ==
    \A c \in DebounceCallers : (v2Pc[c] = "lock75") ~> v2Returned[c]

\* C13, what the code does instead: the first invocation runs the polling loop
\* itself and then waits in m.Lock() for the mutex it holds; no invocation
\* ever returns
C13_NoInvocationReturns ==
    /\ \A c \in DebounceCallers : ~v2Returned[c]
    /\ \A c \in DebounceCallers : v2Pc[c] \in {"lock96", "lock104"} => v2M = c

\* C14: once the polling loop runs for a caller whose context does not end,
\* circuit is eventually executed and the loop is left (the Once is done).
C14_PollerExecutes ==
    \A c \in DebounceCallers :
        (v2Pc[c] = "select" /\ ~v2CtxDone[c])
        ~> ((v2Execs = 1 /\ v2Once = "done") \/ v2CtxDone[c])

\* C14, what the code does instead: circuit is never executed
C14_NeverExecutes == v2Execs = 0 /\ v2Cache = <<"", NoErr>>

\* C15: when the polling select has taken the ctx.Done() case, the pair
\* ("", ctx.Err()) is eventually cached and the loop is left.
C15_CtxErrCached ==
    \A c \in DebounceCallers :
        (v2Pc[c] = "lock104") ~> (v2Cache = <<"", CtxErr>> /\ v2Once = "done")

\* C15: the state the claim is about is reached: the context ended while the
\* select was waiting
C15_CtxEndedWhileWaiting ==
    \E c \in DebounceCallers : v2Pc[c] = "lock104" /\ v2CtxDone[c]

\* ---------------------------------------------------------------- no retry inside
\* C21: one invocation of a Throttle, Breaker or DebounceVersion1 wrapper
\* executes the wrapped function at most once: every execution belongs to one
\* invocation in flight, which for Throttle and DebounceVersion1 returns in
\* the same step and for Breaker goes on to its update and return; no
\* invocation of a Breaker counts a second execution.
C21_NoInnerRetry ==
    /\ [](\A c \in BreakerCallers : bCalls[c] <= 1)
    /\ [][tEffCalls' # tEffCalls
          => /\ tEffCalls' = tEffCalls + 1
             /\ \E c \in ThrottleCallers : tPc[c] = "call" /\ tPc'[c] = "idle"]_vars
    /\ [][bExecuted' # bExecuted
          => /\ bExecuted' = bExecuted + 1
             /\ \E c \in BreakerCallers :
                   /\ bPc[c] = "call" /\ bPc'[c] = "update"
                   /\ bCalls[c] = 0 /\ bCalls'[c] = 1]_vars
    /\ [][v1Execs' # v1Execs
          => /\ v1Execs' = v1Execs + 1
             /\ \E c \in DebounceCallers : v1Pc[c] = "calling" /\ v1Pc'[c] = "idle"]_vars

\* C21 witness: an invocation of the Breaker whose one execution failed has
\* returned the failure
C21_Witness ==
    \E c \in BreakerCallers :
        /\ decorator = "Breaker"
        /\ bPc[c] = "idle"
        /\ bRet[c] = "failed"
        /\ bCalls[c] = 1

C23_CachedLeavesThreshold ==
    [][\A c \in DebounceCallers :
          (v1Pc[c] = "idle" /\ v1Pc'[c] = "idle" /\ v1Budget' # v1Budget)
          => v1Threshold' = v1Threshold]_vars

\* C23: the state the claim is about is reached: an invocation was served
\* from the cache later than the execution before it completed
C23_CachedLater ==
    \E c \in DebounceCallers :
        v1Returned[c] /\ ~v1Ran[c] /\ v1CheckedAt[c] > v1PrevDone[c]

C26_RestrictPrefix ==
    hPc = "done" =>
        LET segs == Split(Clean(hPath))
            hit == \E k \in 1..Len(segs) :
                      /\ Len(segs[k]) >= Len(hPrefix)
                      /\ \A j \in 1..Len(hPrefix) : segs[k][j] = hPrefix[j]
        IN IF hit
           THEN hStatus = NotFound /\ hNextCalls = 0
           ELSE hStatus = FromNext /\ hNextCalls = 1

\* C26 witness: the segment ".a" of "/a/.a" starts with the prefix ".": 404
C26_Witness ==
    /\ hPc = "done"
    /\ hPath = <<"/", "a", "/", ".", "a">>
    /\ hPrefix = <<".">>
    /\ hStatus = NotFound
    /\ hNextCalls = 0

\* C26, the other way: "/a/." is cleaned to "/a", no segment of which starts
\* with ".": next is invoked
C26_WitnessPassed ==
    /\ hPc = "done"
    /\ hPath = <<"/", "a", "/", ".">>
    /\ hPrefix = <<".">>
    /\ hStatus = FromNext
    /\ hNextCalls = 1

\* ---------------------------------------------------------------- Breaker, backoff window
\* C27: for every d = consecutiveFailures - failureThreshold >= 0 the check
\* rejects exactly while time.Now() is at most 2^(d+1) seconds after
\* lastAttempt: the window is 2 seconds doubled d times, never shorter than
\* 2 seconds.  (time.Now() is 2^wSince seconds, plus wExtra nanoseconds,
\* after lastAttempt: at most 2^(d+1) seconds when wSince + wExtra <= d + 1.)
C27_WindowDoubles ==
    (wPc = "done" /\ wFailures - wThreshold >= 0)
    => (wRejected <=> wSince + wExtra <= (wFailures - wThreshold) + 1)

\* C27, the part that holds: while 2 seconds << d fits the int64, d <= 32,
\* the window is BreakerBackoff(d) seconds
C27_DoublesWhileShiftFits ==
    (wPc = "done" /\ wFailures - wThreshold \in 0..32)
    => (wRejected <=> wSince + wExtra <= (wFailures - wThreshold) + 1)

\* C27: the check has run with d = 33 two seconds after lastAttempt
C27_ShiftOverflows ==
    /\ wPc = "done"
    /\ wFailures - wThreshold = 33
    /\ wSince = 1
    /\ wExtra = 0
    /\ wBackoff[SignBit] = 1
    /\ ~wRejected

\* ---------------------------------------------------------------- Breaker, concurrent trial calls
\* C28: the open/closed check looks at consecutiveFailures and lastAttempt
\* only, and the call runs with no lock held: an invocation made after the
\* backoff window has expired is admitted as a trial call also while another
\* invocation, admitted after the same window, is still executing its trial
\* call; so two trial calls of one window can be running at once (C28_Witness).
C28_TrialAdmittedBesideTrial ==
    [][\A c \in BreakerCallers :
          (/\ bOrd'[c] # bOrd[c]
           /\ consecutiveFailures >= failureThreshold
           /\ now > lastAttempt
                    + BreakerBackoff(consecutiveFailures - failureThreshold)
           /\ \E o \in BreakerCallers \ {c} : bPc[o] = "call" /\ bTrial[o])
          => (bPc'[c] = "call" /\ bTrial'[c])]_vars

\* C28 witness: with failureThreshold >= 1 the circuit has opened, the window
\* after lastAttempt has expired, and both invocations were admitted as trial
\* calls after it and are executing the underlying call
C28_Witness ==
    /\ failureThreshold >= 1
    /\ consecutiveFailures >= failureThreshold
    /\ \A c \in BreakerCallers :
          /\ bPc[c] = "call"
          /\ bTrial[c]
          /\ bCheckedAt[c] > lastAttempt
                 + BreakerBackoff(consecutiveFailures - failureThreshold)

\* ---------------------------------------------------------------- Retry, sequential attempts
\* C29: within one invocation at most one attempt of the effector is in
\* flight; attempt k+1 is started only when attempt k has returned and the
\* loop counter has moved on to k, and the counter moves on only when no
\* attempt is in flight and the timer of time.After(delay) has fired.
C29_AttemptsSequential ==
    /\ [](\A i \in RetryInvs : rInCall[i] <= 1)
    /\ [][\A i \in RetryInvs :
             /\ (rRound'[i] = rRound[i] /\ rCalls'[i] # rCalls[i])
                => /\ rCalls'[i] = rCalls[i] + 1
                   /\ rInCall[i] = 0
                   /\ rR[i] = rCalls[i]
             /\ (rRound'[i] = rRound[i] /\ rR'[i] # rR[i])
                => /\ rR'[i] = rR[i] + 1
                   /\ rInCall[i] = 0
                   /\ rCalls[i] = rR[i] + 1
                   /\ rTimer[i] = "fired"]_vars

\* C29 witness: the second attempt of an invocation is running, the first
\* has returned an error
C29_Witness ==
    \E i \in RetryInvs :
        /\ rPc[i] = "incall"
        /\ rCalls[i] = 2
        /\ rInCall[i] = 1
        /\ rR[i] = 1
        /\ rErr[i] # NoErr

\* ---------------------------------------------------------------- Retry, the counter of an invocation
\* C30: every invocation of the wrapper, whether it runs beside another one
\* or follows an earlier one of the same caller, counts its own attempts: it
\* starts with r = 0, a step of one invocation leaves the counter and the
\* attempts of the other alone, and an invocation with retries >= 0 whose
\* context never ended and whose attempts all failed returns after exactly
\* retries + 1 attempts.
C30_OwnBudget ==
    /\ [][\A i \in RetryInvs :
             /\ rRound'[i] # rRound[i] => (rR'[i] = 0 /\ rCalls'[i] = 0)
             /\ (rR'[i] # rR[i] \/ rCalls'[i] # rCalls[i])
                => \A j \in RetryInvs \ {i} :
                      rR'[j] = rR[j] /\ rCalls'[j] = rCalls[j]]_vars
    /\ [](\A i \in RetryInvs :
             /\ rCalls[i] = rR[i] + (IF rPc[i] \in {"idle", "call"} THEN 0 ELSE 1)
             /\ (rPc[i] = "done" /\ retries >= 0 /\ rRet[i][2] \notin {NoErr, CtxErr})
                => rCalls[i] = retries + 1)

\* C30 witness: the second invocation of one caller has used up its own
\* retries + 1 = 3 attempts while the other caller's invocation has made one
C30_Witness ==
    \E i \in RetryInvs :
        /\ retries = 2
        /\ rRound[i] = 2
        /\ rPc[i] = "done"
        /\ rCalls[i] = 3
        /\ rRet[i][2] \notin {NoErr, CtxErr}
        /\ \E j \in RetryInvs \ {i} : rRound[j] = 1 /\ rCalls[j] = 1

\* ---------------------------------------------------------------- Throttle, refill against decrements
\* C31: the write of a refill raises tokens by at most refill above the value
\* tokens has at the moment of the write: a token consumed between the
\* refill's read and its write is not restored.
C31_RefillAtomic ==
    [][(tRefillPc = "write" /\ tRefillPc' = "select")
       => tokens' <= tokens + tRefill]_vars

\* C31: the refill goroutine has computed t from a value of tokens that a
\* caller has lowered since; its write is about to restore the consumed token
C31_RefillOverStaleRead ==
    /\ tRefillPc = "write"
    /\ tRefillT > tokens + tRefill
    /\ tEffCalls >= 1

\* ---------------------------------------------------------------- Debounce, executions in flight
\* C32: DebounceVersion1 executes circuit in the invoking goroutine while it
\* holds m: at most one caller is inside circuit(ctx) at any time, and that
\* caller is the holder of m.
C32_OneExecutionInFlight ==
    /\ Cardinality({c \in DebounceCallers : v1Pc[c] = "calling"}) <= 1
    /\ \A c \in DebounceCallers : v1Pc[c] = "calling" => v1M = c

\* C32 witness: a caller is inside circuit(ctx) after an earlier execution,
\* the cooldown being 0, while the other caller still has invocations to make
C32_Witness ==
    \E c \in DebounceCallers :
        /\ v1Pc[c] = "calling"
        /\ v1M = c
        /\ v1D = 0
        /\ v1Execs >= 1
        /\ v1Budget > 0

\* ---------------------------------------------------------------- Debounce, polling loops
\* C33: for one DebounceVersion2 instance at most one caller runs the polling
\* loop at any time, and circuit is executed only by a polling loop, past the
\* threshold, as the last thing that loop does: at most once per loop.
C33_OnePollingLoop ==
    /\ [](Cardinality({c \in DebounceCallers : v2Pc[c] \in Debounce2InLoop}) <= 1)
    /\ [][v2Execs' # v2Execs
          => /\ v2Execs' = v2Execs + 1
             /\ Debounce2Due(v2Now, v2Threshold)
             /\ \E c \in DebounceCallers :
                   /\ v2Pc[c] = "lock96"
                   /\ v2Pc'[c] \notin Debounce2InLoop]_vars

\* C33 witness: one caller runs the polling loop, a tick has taken it to the
\* m.Lock() of line 96 past the threshold, and the other caller has invoked
\* the wrapper too
C33_Witness ==
    \E c \in DebounceCallers :
        /\ v2Pc[c] = "lock96"
        /\ v2M = c
        /\ Debounce2Due(v2Now, v2Threshold)
        /\ \E o \in DebounceCallers \ {c} : v2Pc[o] = "lock75"

\* ---------------------------------------------------------------- datagramEchoServer
\* C34: once the server has started and its context is cancelled, the socket
\* is eventually closed and, for unixgram, the socket file removed, whether
\* or not a datagram arrives after the cancellation.
C34_CancelCloses ==
    (eCtxDone /\ eSockOpen) ~> (~eSockOpen /\ ~eFile)

\* C34, the part that holds: the deferred function closes the socket and
\* removes the file once the loop has ended on an error and ctx is cancelled
C34_ClosesAfterLoopEnded ==
    (ePc = "deferWait" /\ eCtxDone) ~> (~eSockOpen /\ ~eFile)

\* C34: the context is cancelled, the goroutine is in s.ReadFrom with no
\* datagram to read, and the socket and its file are still there
C34_CancelledInReadFrom ==
    /\ eCtxDone
    /\ ePc = "read"
    /\ eInbox = 0
    /\ eSent = MaxDatagrams
    /\ eSockOpen
    /\ eFile

\* ---------------------------------------------------------------- Retry, the first and the last attempt
\* C35: an invocation of the wrapper that has returned has called the
\* effector at least once, also when its context had ended before it was
\* invoked; with retries <= 0 it has called it exactly once; and the pair of
\* the last permitted attempt (attempt retries + 1, or the only attempt when
\* retries <= 0) is returned as it is, a failure as the effector's own
\* error, also when the context has ended by then.
C35_AtLeastOnce ==
    \A i \in RetryInvs :
        rPc[i] = "done"
        => /\ rCalls[i] >= 1
           /\ retries <= 0 => rCalls[i] = 1
           /\ (retries <= 0 \/ rCalls[i] = retries + 1)
              => /\ rRet[i] = <<rResp[i], rErr[i]>>
                 /\ rRet[i][2] \in {NoErr, EffErr(rCalls[i])}

\* C35 witness: after a retry the invocation has returned the failure of its
\* last permitted attempt as it is, its context having ended
C35_Witness ==
    \E i \in RetryInvs :
        /\ rPc[i] = "done"
        /\ rCtxDone[i]
        /\ retries = 1
        /\ rCalls[i] = 2
        /\ rRet[i][2] = EffErr(2)

\* ---------------------------------------------------------------- Breaker, threshold <= 0
\* C36: with failureThreshold <= 0 the circuit is open from construction on:
\* while the underlying call has never been invoked, an invocation made no
\* later than 2^(1 - failureThreshold) seconds after construction (2 seconds
\* for threshold 0) is rejected with "service unreachable".
C36_StartsOpen ==
    \A c \in BreakerCallers :
        (/\ failureThreshold <= 0
         /\ bExecuted = 0
         /\ bOrd[c] >= 1
         /\ bCheckedAt[c] <= BreakerBackoff(0 - failureThreshold))
        => /\ BreakerRejected(c)
           /\ bRet[c] = "service unreachable"

\* C36 witness: threshold 0, the invocation made 2 seconds after construction
\* was rejected and the underlying call has not been invoked
C36_Witness ==
    \E c \in BreakerCallers :
        /\ failureThreshold = 0
        /\ bExecuted = 0
        /\ consecutiveFailures = 0
        /\ bOrd[c] = 1
        /\ bCheckedAt[c] = 2
        /\ BreakerRejected(c)

\* ---------------------------------------------------------------- Throttle, who starts the refill task
\* C37: in the Throttle that checks ctx.Err(), an invocation whose context
\* has ended (it starts and returns in one step) returns ctx.Err() without
\* touching the Once or the refill goroutine; the refill goroutine is started by the first invocation whose
\* context is live (until then every invocation was turned away with
\* ctx.Err()), it captures that context, and it exits only when that
\* context has ended.
C37_RefillStartedByLiveCtx ==
    /\ [][tChecksCtx =>
            /\ (tStarted' # tStarted /\ tPc' = tPc)
               => /\ \E c \in ThrottleCallers :
                        tPc[c] = "idle" /\ tRet'[c] = CtxOutcome
                  /\ UNCHANGED <<tOnceDone, tRefillPc, tRefillCtx, tRefills, tokens>>
            /\ (~tOnceDone /\ tOnceDone')
               => /\ tStarted' = tStarted + 1
                  /\ tRefillCtx' \in ThrottleCtxs
                  /\ ~tCtxDone[tRefillCtx']
                  /\ tRefills' = 1]_vars
    /\ [](tChecksCtx =>
            /\ ~tOnceDone =>
                  /\ tRefillPc = "none"
                  /\ \A c \in ThrottleCallers :
                        tPc[c] = "idle" /\ tRet[c] \in {"none", CtxOutcome}
            /\ tRefillPc = "exited" => tCtxDone[tRefillCtx])

\* C37 witness: an invocation with the ended context 1 was turned away, the
\* invocation with context 2 has started the refill goroutine
C37_Witness ==
    /\ tChecksCtx
    /\ tCtxDone[1] /\ ~tCtxDone[2]
    /\ tStarted = 2
    /\ tOnceDone
    /\ tRefills = 1
    /\ tRefillCtx = 2
    /\ \E c \in ThrottleCallers : tPc[c] = "idle" /\ tRet[c] = CtxOutcome

\* ---------------------------------------------------------------- funnel (fan-in)
\* the values of source s received from dest, in the order of their arrival
FunnelDelivered(s) ==
    LET FromS(p) == p[1] = s
        picked == SelectSeq(fnDest, FromS)
    IN [k \in 1..Len(picked) |-> picked[k][2]]

\* C38: every value a goroutine of funnel has received from its source is
\* either the one it is sending on dest or has arrived on dest exactly once,
\* the values of one source in the order they were sent; dest is closed at
\* most once, no goroutine sends on the closed dest, and dest is closed only
\* when every source is closed and all its values have arrived; and once
\* every source is closed, dest is eventually closed.
C38_FunnelDelivers ==
    /\ [](/\ \A s \in FunnelSources :
                LET arrived == fnSent[s] - (IF fnPc[s] = "send" THEN 1 ELSE 0)
                IN /\ FunnelDelivered(s) = [k \in 1..arrived |-> k]
                   /\ fnPc[s] = "send" => fnHeld[s] = fnSent[s]
          /\ fnCloses <= 1
          /\ ~fnPanic
          /\ fnCloses = 1 =>
                \A s \in FunnelSources :
                    /\ fnSrcClosed[s]
                    /\ fnPc[s] = "done"
                    /\ Len(FunnelDelivered(s)) = fnSent[s])
    /\ ((\A s \in FunnelSources : fnSrcClosed[s]) ~> (fnCloses = 1))

\* C38 witness: dest is closed and read to its end; both sources delivered
\* MaxValues values, a value of source 2 arriving between those of source 1
C38_Witness ==
    /\ fnCloses = 1
    /\ fnConsumer = "done"
    /\ \A s \in FunnelSources : fnSent[s] = MaxValues
    /\ Len(fnDest) = NumSources * MaxValues
    /\ fnDest[1][1] = 1
    /\ fnDest[2][1] = 2
    /\ fnDest[Len(fnDest)][1] = 1

\* ---------------------------------------------------------------- split (fan-out)
\* the places where value v is: positions in the consumers' sequences and
\* goroutines of split that hold it
SplitPlaces(v) ==
    {<<w, 0>> : w \in {x \in SplitDests : spPc[x] = "send" /\ spHeld[x] = v}}
    \cup {p \in SplitDests \X (1..MaxSplitValues + 1) :
             p[2] <= Len(spGot[p[1]]) /\ spGot[p[1]][p[2]] = v}

\* C39: every value sent on source is in exactly one place: held by the one
\* goroutine of split that is sending it, or received once by the consumer
\* of exactly one destination; a destination is closed at most once and only
\* after source was closed and its goroutine has handed over its last value;
\* and once source is closed, every destination is eventually closed, every
\* consumer ends and main's wg.Wait() returns.
C39_SplitDelivers ==
    /\ [](/\ \A v \in 1..MaxSplitValues + 1 :
                Cardinality(SplitPlaces(v)) = (IF v <= spSent THEN 1 ELSE 0)
          /\ \A w \in SplitDests :
                /\ spCloses[w] <= 1
                /\ spCloses[w] = 1 => (spSrcClosed /\ spPc[w] = "done")
                /\ spConsumer[w] = "done" => spCloses[w] = 1)
    /\ (spSrcClosed ~> (/\ \A w \in SplitDests :
                              spCloses[w] = 1 /\ spConsumer[w] = "done"
                        /\ spMain = "done"))

\* C39 witness: all MaxSplitValues values were sent, both destinations
\* received some of them, every destination is closed and main has returned
C39_Witness ==
    /\ spSent = MaxSplitValues
    /\ spSrcClosed
    /\ \A w \in SplitDests :
          spCloses[w] = 1 /\ spConsumer[w] = "done" /\ Len(spGot[w]) >= 1
    /\ spMain = "done"

====
